---- MODULE Spec2Model ----
(***************************************************************************)
(* Model of the lab research dashboard: the chat endpoint's retrieval      *)
(* engine (searchKnowledge, keywordSearch, semanticSearch), the corpus     *)
(* cache of loadThesisData, and the document stores (in-process memory,    *)
(* KV, blob) with upload, URL ingestion, backfill and reset.               *)
(*                                                                         *)
(* Strings are sequences of characters.  A character is a short TLA+       *)
(* string; the model alphabet is                                           *)
(*   "K1".."K8"  kanji (characters of the class [U+4E00-U+9FAF]):          *)
(*               K1 K2 = Ono (a surname), K3 K4 = Taro (a given name),     *)
(*               K5 K6 = kenkyu (research), K7 K8 = noha (brain waves)     *)
(*   "hNo"       the hiragana no (the particle)                            *)
(*   "e" "g" "p" "r"   ASCII lower case,  "E" "P"  ASCII upper case        *)
(*   "7"         a digit                                                   *)
(*   " "         white space,  "jc"  the Japanese comma                    *)
(*   "(" "."     characters that are syntax in a regular expression        *)
(***************************************************************************)
EXTENDS Integers, Sequences, FiniteSets, TLC

VARIABLES
    \* ---- chat endpoint (src/app/api/chat/route.ts) ----
    corpus,           \* what loadThesisData returned: sequence of catalog ids
    apiKeySet,        \* process.env.OPENAI_API_KEY is set and no placeholder
    lastMessage,      \* message of the last chat request (<<>> before the first)
    lastMode,         \* searchMode of the last chat request
    searchOutcome,    \* what searchKnowledge did on the last request
    pending,          \* a chat request has arrived and POST has not handled it yet
    kwCall,           \* the keywordSearch call of the last request, if any
    searchScore,      \* doc.searchScore of the corpus objects (0 = undefined)
    response,         \* HTTP response of the last chat request
    completionCalls,  \* calls of chat.completions.create by the last request
    \* ---- document stores (src/lib/knowledgeStore.ts, src/lib/blobStore.ts, KV) ----
    kvEnabled,        \* KV_REST_API_URL and KV_REST_API_TOKEN are set
    documents,        \* the in-process list `documents` of knowledgeStore
    kvDocs,           \* the list under 'lab:docs' in KV
    kvHash,           \* the documents under 'kb:doc:<id>' with their id in the zset 'kb:docs'
    blobMeta,         \* the documents of kb/metadata.json in the blob store
    uploads,          \* uploads and ingestions between their upsert and their processing
    lastOp,           \* the last operation on the stores
    \* ---- corpus cache (loadThesisData) ----
    now,              \* Date.now() of the process, in milliseconds
    ticks,            \* number of clock advances so far
    thesisCache,      \* _thesisCache: not filled (null), or the cached corpus
    cacheTimestamp,   \* _cacheTimestamp
    cacheKVVersion,   \* _cacheKVVersion: Null or a number
    kvVersion,        \* value under 'lab:docs:version' in KV: Null or a number
    lastLoad,         \* record of the last loadThesisData call
    bumpedSinceFill,  \* the version was bumped after the last cache fill
    loadCalls,           \* the loadThesisData calls that run step by step, side by side
    \* ---- vector store (src/lib/vectorStore.ts, KV) ----
    vecIndex,         \* the document ids under 'lab:vec:index'
    vecChunks,        \* the chunk list under 'lab:vec:<id>', for the ids that have one
    embedRequested,   \* the ids the last operation requested embeddings for
    failingDocs,      \* the ids whose embedding request is refused whenever it is made
    \* ---- calls that run step by step ----
    storeCalls,       \* the knowledgeStore calls under way, between their read and their write
    readAll,          \* the run of readAllDocuments of blobStore: cursor, workers, results
    chunker           \* the run of chunkText or splitTextIntoChunks: input, loop state, chunks

searchVars == <<corpus, apiKeySet, lastMessage, lastMode, pending, searchOutcome, kwCall,
                searchScore, response, completionCalls>>
storeVars == <<kvEnabled, documents, kvDocs, kvHash, blobMeta, uploads, lastOp>>
cacheVars == <<now, ticks, thesisCache, cacheTimestamp, cacheKVVersion, kvVersion,
               lastLoad, bumpedSinceFill>>
vecVars == <<vecIndex, vecChunks, embedRequested>>
runVars == <<failingDocs, storeCalls, readAll, chunker>>
vars == <<searchVars, storeVars, cacheVars, loadCalls, vecVars, runVars>>

\* null, where a number is expected (versions and times are >= 0)
Null == -1
NoRequest == "none"

-----------------------------------------------------------------------------
(* Characters and strings *)

Kanji == {"K1", "K2", "K3", "K4", "K5", "K6", "K7", "K8"}
Hiragana == {"hNo"}
LowerAscii == {"e", "g", "p", "r"}
UpperAscii == {"E", "P"}
Digits == {"7"}
WhiteSpace == {" "}
JapanesePunct == {"jc"}
RegexSyntax == {"(", "."}
Alphabet == Kanji \cup Hiragana \cup LowerAscii \cup UpperAscii \cup Digits
            \cup WhiteSpace \cup JapanesePunct \cup RegexSyntax

\* String.prototype.toLowerCase, on one character and on a string
LowerChar(c) == IF c = "E" THEN "e" ELSE IF c = "P" THEN "p" ELSE c
ToLower(s) == [i \in 1..Len(s) |-> LowerChar(s[i])]

\* String.prototype.trim
RECURSIVE TrimLeft(_)
TrimLeft(s) == IF s # <<>> /\ Head(s) \in WhiteSpace THEN TrimLeft(Tail(s)) ELSE s
RECURSIVE TrimRight(_)
TrimRight(s) ==
    IF s # <<>> /\ s[Len(s)] \in WhiteSpace THEN TrimRight(SubSeq(s, 1, Len(s) - 1)) ELSE s
Trim(s) == TrimRight(TrimLeft(s))

\* String.prototype.includes
Includes(s, sub) ==
    \E i \in 0..(Len(s) - Len(sub)) : SubSeq(s, i + 1, i + Len(sub)) = sub

\* the maximal runs of characters of the class cls in s, left to right
RECURSIVE RunsFrom(_, _, _, _)
RunsFrom(s, cls, i, cur) ==
    IF i > Len(s) THEN (IF cur = <<>> THEN <<>> ELSE <<cur>>)
    ELSE IF s[i] \in cls THEN RunsFrom(s, cls, i + 1, Append(cur, s[i]))
    ELSE (IF cur = <<>> THEN <<>> ELSE <<cur>>) \o RunsFrom(s, cls, i + 1, <<>>)
Runs(s, cls) == RunsFrom(s, cls, 1, <<>>)

\* s.split(/[sep]+/).filter(k => k.length > 0): the non-empty pieces between separators
SplitOn(s, sep) == Runs(s, Alphabet \ sep)

\* s.match(/[cls]{lo,hi}/g): greedy, left to right, inside each maximal run
RECURSIVE ChopRun(_, _, _)
ChopRun(run, lo, hi) ==
    IF Len(run) < lo THEN <<>>
    ELSE LET n == IF Len(run) < hi THEN Len(run) ELSE hi
         IN  <<SubSeq(run, 1, n)>> \o ChopRun(SubSeq(run, n + 1, Len(run)), lo, hi)
RECURSIVE ChopAll(_, _, _)
ChopAll(runs, lo, hi) ==
    IF runs = <<>> THEN <<>> ELSE ChopRun(Head(runs), lo, hi) \o ChopAll(Tail(runs), lo, hi)
MatchRuns(s, cls, lo, hi) == ChopAll(Runs(s, cls), lo, hi)

\* Array.from(new Set(seq)): first occurrences, in order
RECURSIVE Unique(_)
Unique(seq) ==
    IF seq = <<>> THEN <<>>
    ELSE LET init == Unique(SubSeq(seq, 1, Len(seq) - 1))
             x == seq[Len(seq)]
         IN  IF \E i \in 1..Len(init) : init[i] = x THEN init ELSE Append(init, x)

Range(seq) == {seq[i] : i \in 1..Len(seq)}

RECURSIVE Repeat(_, _)
Repeat(s, n) == IF n = 0 THEN <<>> ELSE s \o Repeat(s, n - 1)

\* new RegExp(kw, 'g') throws a SyntaxError: over the alphabet, exactly when kw holds
\* a "(" (the group is never closed, there is no ")")
RegexThrows(kw) == \E i \in 1..Len(kw) : kw[i] = "("

\* the pattern kw matches s at position i ("." matches any character)
RegexMatchAt(s, kw, i) ==
    /\ i + Len(kw) - 1 <= Len(s)
    /\ \A j \in 1..Len(kw) : kw[j] = "." \/ kw[j] = s[i + j - 1]

\* (s.match(new RegExp(kw, 'g')) || []).length: non-overlapping matches, left to right
RECURSIVE CountFrom(_, _, _)
CountFrom(s, kw, i) ==
    IF i + Len(kw) - 1 > Len(s) THEN 0
    ELSE IF RegexMatchAt(s, kw, i) THEN 1 + CountFrom(s, kw, i + Len(kw))
    ELSE CountFrom(s, kw, i + 1)
CountMatches(s, kw) == CountFrom(s, kw, 1)

-----------------------------------------------------------------------------
(* Words of the model and the catalog of documents *)

ONO == <<"K1", "K2">>
ONO_TARO == <<"K1", "K2", "K3", "K4">>
KENKYU == <<"K5", "K6">>
NOHA == <<"K7", "K8">>
EEG == <<"e", "e", "g">>
ERP == <<"e", "r", "p">>
PEG == <<"P", "e", "g">>
SP == <<" ">>

\* The documents a corpus is drawn from: id, metadata.author ("" when absent),
\* metadata.title and content, as loadThesisData builds them.
\*   1  a thesis whose author is Ono Taro; Ono occurs neither in title nor in content
\*   2  a document without author whose title and content name Ono
\*   3  a document whose author is the ASCII name Peg
\*   4  a document without author that matches on content only (eeg, erp, noha)
\*   5..15  eleven documents of an archive, without author, that all hold eeg, from
\*          once to five times; the six with an odd id hold erp and peg as well
\*   16     the twelfth document of the archive: it holds erp but not eeg
ArchiveIds == 5..16
ArchiveDoc(id) ==
    [author |-> <<>>, title |-> <<"7">>,
     content |-> IF id = 16 THEN Repeat(ERP \o SP, 5)
                 ELSE Repeat(EEG \o SP, 1 + (id % 5))
                      \o (IF id % 2 = 1 THEN ERP \o SP \o ToLower(PEG) ELSE <<>>)]
Catalog ==
    << [author |-> ONO_TARO, title |-> <<"7">>, content |-> EEG],
       [author |-> <<>>, title |-> ONO \o <<"hNo">> \o KENKYU,
        content |-> Repeat(ONO \o SP, 5)],
       [author |-> PEG, title |-> <<"7", "7">>, content |-> <<"7">>],
       [author |-> <<>>, title |-> <<"r", "r">>,
        content |-> Repeat(EEG \o SP, 5) \o Repeat(ERP \o SP, 5) \o NOHA] >>
    \o [i \in 1..Cardinality(ArchiveIds) |-> ArchiveDoc(i + 4)]
CatalogIds == DOMAIN Catalog

\* the lower-cased fields the searches compare with (toLowerCase of each field)
RECURSIVE LowerDocs(_)
LowerDocs(docs) ==
    IF docs = <<>> THEN <<>>
    ELSE << [author |-> ToLower(Head(docs).author), title |-> ToLower(Head(docs).title),
             content |-> ToLower(Head(docs).content)] >> \o LowerDocs(Tail(docs))
LowerCatalog == LowerDocs(Catalog)

\* fieldExpansions: the entries whose key is a string over the alphabet, with those of
\* their expansions that are strings over the alphabet, in the order of the table
FieldExpansions ==
    << [field |-> <<"K7">>, expansions |-> <<NOHA, EEG>>],
       [field |-> EEG, expansions |-> <<NOHA, ERP>>] >>

-----------------------------------------------------------------------------
(* keywordSearch *)

\* the expansions one keyword pulls in: every field with
\* keyword.includes(field) || field.includes(keyword)
RECURSIVE ExpansionsOf(_, _)
ExpansionsOf(keyword, table) ==
    IF table = <<>> THEN <<>>
    ELSE (IF Includes(keyword, Head(table).field) \/ Includes(Head(table).field, keyword)
          THEN Head(table).expansions ELSE <<>>)
         \o ExpansionsOf(keyword, Tail(table))

RECURSIVE AllExpansions(_)
AllExpansions(keywords) ==
    IF keywords = <<>> THEN <<>>
    ELSE ExpansionsOf(Head(keywords), FieldExpansions) \o AllExpansions(Tail(keywords))

\* the optional argument customKeywords of keywordSearch
NoCustom == [given |-> FALSE, keywords |-> <<>>]
Custom(keywords) == [given |-> TRUE, keywords |-> keywords]

\* searchKeywords of keywordSearch: the custom keywords, or the white-space tokens of
\* the lower-cased query, plus the 2-3 character kanji runs of the query
SearchKeywords(query, custom) ==
    LET baseKeywords == IF custom.given THEN custom.keywords
                        ELSE SplitOn(ToLower(query), WhiteSpace)
        kanjiTokens == MatchRuns(query, Kanji, 2, 3)
    IN  Unique(baseKeywords \o kanjiTokens)

\* finalKeywords: the search keywords followed by their expansions, without repeats
FinalKeywords(query, custom) ==
    LET sk == SearchKeywords(query, custom) IN Unique(sk \o AllExpansions(sk))

IsTechTerm(kl) == (\A i \in 1..Len(kl) : kl[i] \in LowerAscii) /\ Len(kl) > 2

\* the author part of one keyword's score
AuthorScore(doc, keyword) ==
    LET lowerAuthor == doc.author
        kl == ToLower(keyword)
    IN  IF lowerAuthor = <<>> THEN 0
        ELSE IF lowerAuthor = kl THEN 25
        ELSE IF Includes(lowerAuthor, kl) \/ Includes(kl, lowerAuthor) THEN 15
        ELSE 0

\* the title part of one keyword's score
TitleScore(doc, keyword) ==
    LET kl == ToLower(keyword)
    IN  IF Includes(doc.title, kl)
        THEN (IF IsTechTerm(kl) \/ keyword = NOHA THEN 12 ELSE 8)
        ELSE 0

\* the content part of one keyword's score (the keyword is a regular expression here)
ContentScore(doc, keyword) ==
    LET kl == ToLower(keyword)
        contentMatches == CountMatches(doc.content, kl)
    IN  IF contentMatches > 0
        THEN (IF contentMatches >= 5 THEN 7
              ELSE IF contentMatches >= 3 THEN 5
              ELSE IF contentMatches >= 2 THEN 3
              ELSE 1)
             + (IF IsTechTerm(kl) THEN 3 ELSE 0)
        ELSE 0

RECURSIVE SumKeywordScores(_, _)
SumKeywordScores(doc, keywords) ==
    IF keywords = <<>> THEN 0
    ELSE AuthorScore(doc, Head(keywords)) + TitleScore(doc, Head(keywords))
         + ContentScore(doc, Head(keywords)) + SumKeywordScores(doc, Tail(keywords))

\* fieldKeywordCount: the keywords that occur in the content or the title
FieldKeywordCount(doc, keywords) ==
    Cardinality({i \in 1..Len(keywords) :
        \/ Includes(doc.content, ToLower(keywords[i]))
        \/ Includes(doc.title, ToLower(keywords[i]))})

\* the score keywordSearch gives a document (doc holds its lower-cased fields)
DocScore(doc, keywords) ==
    SumKeywordScores(doc, keywords)
    + (IF FieldKeywordCount(doc, keywords) >= 3 THEN 5 ELSE 0)

\* seq.filter(keep), for a set of kept elements
RECURSIVE FilterSeq(_, _)
FilterSeq(seq, keep) ==
    IF seq = <<>> THEN <<>>
    ELSE (IF Head(seq) \in keep THEN <<Head(seq)>> ELSE <<>>) \o FilterSeq(Tail(seq), keep)

\* a variant of SortDesc that leaves the order as it is
KeepOrder(seq, key) == seq

\* Array.prototype.sort((a, b) => key(b) - key(a)): stable, descending
RECURSIVE InsertDesc(_, _, _)
InsertDesc(sorted, x, key) ==
    IF sorted = <<>> THEN <<x>>
    ELSE IF key[Head(sorted)] >= key[x] THEN <<Head(sorted)>> \o InsertDesc(Tail(sorted), x, key)
    ELSE <<x>> \o sorted
RECURSIVE SortDesc(_, _)
SortDesc(seq, key) ==
    IF seq = <<>> THEN <<>>
    ELSE InsertDesc(SortDesc(SubSeq(seq, 1, Len(seq) - 1), key), seq[Len(seq)], key)

Take(seq, n) == SubSeq(seq, 1, IF Len(seq) < n THEN Len(seq) ELSE n)

\* no keywordSearch call
NoKw == [called |-> FALSE, threw |-> FALSE, docs |-> <<>>, score |-> <<>>, base |-> <<>>,
         keywords |-> <<>>]

\* keywordSearch(base, customKeywords) for the query: it throws when a keyword is no
\* valid regular expression (the first document's scoring builds it); otherwise the
\* documents with a positive score, by descending score, at most 5.
\* score is what the call writes to doc.searchScore.
keywordSearch(base, custom, query) ==
    LET finalKeywords == FinalKeywords(query, custom)
        threw == base # <<>> /\ \E i \in 1..Len(finalKeywords) : RegexThrows(finalKeywords[i])
        score == [id \in Range(base) |->
                    IF threw THEN 0 ELSE DocScore(LowerCatalog[id], finalKeywords)]
        results == FilterSeq(base, {id \in Range(base) : score[id] > 0})
    IN  [called |-> TRUE,
         threw |-> threw,
         docs |-> IF threw THEN <<>> ELSE Take(SortDesc(results, score), 5),
         score |-> score,
         base |-> base,
         keywords |-> finalKeywords]

-----------------------------------------------------------------------------
(* analyzeQuestion, extractDynamicKeywords, semanticSearch, searchKnowledge *)

\* analyzeQuestion(query).isFieldInquiry.  Over the alphabet only the third pattern,
\* /(.+?)(no|wo|...).*(kenkyu|...)/, can match (every other pattern needs a character
\* the alphabet does not have): some character, then the particle, then, anywhere
\* later, the word kenkyu.
IsFieldInquiry(query) ==
    LET q == ToLower(query)
    IN  \E i \in 2..Len(q) :
            /\ q[i] = "hNo"
            /\ \E j \in (i + 1)..(Len(q) - 1) : SubSeq(q, j, j + 1) = KENKYU

\* the English terms extractDynamicKeywords takes from one lower-cased content:
\* /[a-z]+(-[a-z]+)*[a-z]/g, kept when longer than 2 (no stop word is over the alphabet)
EnglishTerms(content) ==
    LET runs == Runs(content, LowerAscii)
    IN  FilterSeq(runs, {r \in Range(runs) : Len(r) > 2})

RECURSIVE DynamicTermsOf(_, _)
DynamicTermsOf(docs, queryWords) ==
    IF docs = <<>> THEN <<>>
    ELSE LET d == LowerCatalog[Head(docs)]
             hasQueryMatch ==
                 \E i \in 1..Len(queryWords) :
                     \/ Includes(d.content, queryWords[i])
                     \/ Includes(d.title, queryWords[i])
         IN  (IF hasQueryMatch THEN EnglishTerms(d.content) ELSE <<>>)
             \o DynamicTermsOf(Tail(docs), queryWords)

\* extractDynamicKeywords(query, documents): at most 10 terms of the documents that
\* hold a query word (katakana runs, kanji+kana compounds and acronyms do not occur
\* over the alphabet)
extractDynamicKeywords(query, docs) ==
    LET words == SplitOn(ToLower(query), WhiteSpace \cup JapanesePunct)
        queryWords == FilterSeq(words, {w \in Range(words) : Len(w) > 1})
    IN  Take(Unique(DynamicTermsOf(docs, queryWords)), 10)

\* the candidates of semanticSearch's prefilter
PrefilterCandidates(base, query) ==
    LET searchKeywords == Unique(SplitOn(ToLower(query), WhiteSpace)
                                 \o MatchRuns(query, Kanji, 2, 3))
        nameKeywords == {k \in Range(searchKeywords) :
                            /\ Len(k) >= 2 /\ Len(k) <= 10
                            /\ \A i \in 1..Len(k) : k[i] \in Kanji \cup Hiragana}
        technicalKeywords == {k \in Range(searchKeywords) : Len(k) > 2}
        Keep(id) ==
            LET lowerContent == LowerCatalog[id].content
                lowerTitle == LowerCatalog[id].title
                lowerAuthor == LowerCatalog[id].author
                nameMatch ==
                    \E name \in nameKeywords :
                        \/ lowerAuthor # <<>>
                           /\ (Includes(lowerAuthor, name) \/ Includes(name, lowerAuthor))
                        \/ Includes(lowerTitle, name)
                        \/ Includes(lowerContent, name)
                techMatch ==
                    \E tech \in technicalKeywords :
                        Includes(lowerContent, tech) \/ Includes(lowerTitle, tech)
            IN  \/ nameMatch
                \/ techMatch
                \/ \E k \in Range(searchKeywords) :
                       Includes(lowerContent, k) \/ Includes(lowerTitle, k)
    IN  IF nameKeywords # {} \/ technicalKeywords # {}
        THEN FilterSeq(base, {id \in Range(base) : Keep(id)})
        ELSE base

\* the result of a search path: it threw or returned docs; kw is the keywordSearch
\* call it made (NoKw when none), embedded says the embedding oracle was asked;
\* candidates, similarity, failed and answers (what the vector store and the oracle
\* returned for the candidates) are those of the rerank (empty without one)
PathResult(kw) ==
    [threw |-> kw.threw, docs |-> kw.docs, kw |-> kw, embedded |-> FALSE,
     candidates |-> <<>>, similarity |-> <<>>, failed |-> {}, answers |-> <<>>]

\* cosine similarities are in percent; the floor of the rerank is 0.1
SimilarityFloor == 10

\* a variant of BestOf that keeps the similarity of the last chunk
LastOf(chunkSims, best) == IF chunkSims = <<>> THEN best ELSE chunkSims[Len(chunkSims)]

\* let best = 0; for (const ch of vecs) { if (sim > best) best = sim }
RECURSIVE BestOf(_, _)
BestOf(chunkSims, best) ==
    IF chunkSims = <<>> THEN best
    ELSE BestOf(Tail(chunkSims), IF Head(chunkSims) > best THEN Head(chunkSims) ELSE best)

\* The similarity the rerank gives a candidate.  sims holds what the vector store
\* and the embedding oracle return for the request: sims.doc[id].chunks are the
\* cosines of the stored chunk embeddings (none when the document is not indexed),
\* sims.doc[id].direct the cosine of the on-the-fly embedding; sims.failed are the
\* documents whose on-the-fly embedding request fails, so that generateEmbedding
\* returns 1536 random numbers, whose cosine with the query embedding is sims.noise.
Similarity(id, sims) ==
    IF sims.doc[id].chunks # <<>> THEN BestOf(sims.doc[id].chunks, 0)
    ELSE IF id \in sims.failed THEN sims.noise
    ELSE sims.doc[id].direct

\* the cosine rerank of 1-10 candidates: descending, the first 5, those above the floor
Rerank(candidates, sims) ==
    LET similarity == [id \in Range(candidates) |-> Similarity(id, sims)]
        top == Take(SortDesc(candidates, similarity), 5)
    IN  [threw |-> FALSE,
         docs |-> FilterSeq(top, {id \in Range(top) : similarity[id] > SimilarityFloor}),
         kw |-> NoKw, embedded |-> TRUE, candidates |-> candidates,
         similarity |-> similarity,
         failed |-> {id \in Range(candidates) :
                       sims.doc[id].chunks = <<>> /\ id \in sims.failed},
         answers |-> [id \in Range(candidates) |-> sims.doc[id]]]

\* a variant of TooManyCandidates that never falls back
TooManyCandidatesNever(candidates) == FALSE

\* more candidates than the rerank embeds
TooManyCandidates(candidates) == Len(candidates) > 10

\* semanticSearch(base): vecFail says the read of the vector index throws.  A
\* rejected keywordSearch promise returned from inside the try block is not caught.
semanticSearch(base, kb, query, sims, vecFail) ==
    LET candidates == PrefilterCandidates(base, query)
        keywords == SplitOn(ToLower(query), WhiteSpace \cup JapanesePunct)
    IN  IF TooManyCandidates(candidates)
        THEN PathResult(keywordSearch(candidates, NoCustom, query))
        ELSE IF Len(candidates) > 0
        THEN (IF vecFail THEN PathResult(keywordSearch(base, NoCustom, query))
              ELSE Rerank(candidates, sims))
        ELSE PathResult(keywordSearch(kb,
                 Custom(keywords \o extractDynamicKeywords(query, kb)), query))

\* the documents the author-name guard restricts the search to
AuthorGuardDocs(kb, query) ==
    LET nameTokens == MatchRuns(query, Kanji, 2, 6)
    IN  FilterSeq(kb, {id \in Range(kb) :
            \E i \in 1..Len(nameTokens) :
                \/ Includes(Catalog[id].author, nameTokens[i])
                \/ Includes(Catalog[id].title, nameTokens[i])})

\* a variant of TakesFieldBranch in which the author guard comes first
TakesFieldBranchUnguarded(query, guarded) == IsFieldInquiry(query) /\ guarded = <<>>

\* the field-inquiry branch is taken: its test comes before the author guard and
\* before the dispatch on the mode, and looks at the query only
TakesFieldBranch(query, guarded) == IsFieldInquiry(query)

\* searchKnowledge(query, searchMode) over the corpus kb loadThesisData returned
searchKnowledge(kb, query, mode, sims, vecFail) ==
    LET keywords == SplitOn(ToLower(query), WhiteSpace \cup JapanesePunct)
        guarded == AuthorGuardDocs(kb, query)
    IN  IF kb = <<>> THEN PathResult(NoKw)
        ELSE IF TakesFieldBranch(query, guarded)
        THEN PathResult(keywordSearch(kb,
                 Custom(keywords \o extractDynamicKeywords(query, kb)), query))
        ELSE IF guarded # <<>> THEN PathResult(keywordSearch(guarded, Custom(keywords), query))
        ELSE IF mode = "keyword" THEN PathResult(keywordSearch(kb, NoCustom, query))
        ELSE semanticSearch(kb, kb, query, sims, vecFail)

\* doc.searchScore after the search: keywordSearch writes the positive scores
ScoresAfter(before, res) ==
    IF ~res.kw.called \/ res.threw THEN before
    ELSE [id \in DOMAIN before |->
            IF id \in DOMAIN res.kw.score /\ res.kw.score[id] > 0
            THEN res.kw.score[id] ELSE before[id]]

-----------------------------------------------------------------------------
(* POST /api/chat *)

\* line of the statement that first reads finalRelevantKnowledge (building the
\* context), and line of its const declaration, in the same block of POST
ContextBuildLine == 93
FinalRelevantKnowledgeDeclLine == 138

\* a const binding can be read only by statements that run after its declaration; a
\* read before it throws a ReferenceError (temporal dead zone)
BindingReadable(readLine, declLine) == readLine > declLine

Resp(status, kind, sources, calls) ==
    [status |-> status, kind |-> kind, sources |-> sources, completionCalls |-> calls]

\* The response of POST to a request whose search ended as res, with the documents'
\* searchScore as the search left it; oracle is what chat.completions.create does
\* when it is called: "text", "empty" or "throws".
PostResponse(message, res, scores, oracle) ==
    IF Trim(message) = <<>> THEN Resp(400, "message_required", <<>>, 0)
    ELSE IF ~apiKeySet THEN Resp(500, "not_configured", <<>>, 0)
    ELSE IF res.threw THEN Resp(500, "failed", <<>>, 0)
    ELSE IF ~BindingReadable(ContextBuildLine, FinalRelevantKnowledgeDeclLine)
    THEN Resp(500, "failed", <<>>, 0)
    ELSE IF Len(res.docs) = 0 THEN Resp(200, "no_data", <<>>, 0)
    ELSE LET highQualityResults ==
                 FilterSeq(res.docs, {id \in Range(res.docs) : scores[id] = 0 \/ scores[id] >= 5})
         IN  IF Len(highQualityResults) = 0 THEN Resp(200, "low_relevance", <<>>, 0)
             ELSE IF oracle = "throws" THEN Resp(500, "failed", <<>>, 1)
             ELSE IF oracle = "empty" THEN Resp(500, "empty_answer", <<>>, 1)
             ELSE Resp(200, "answer", highQualityResults, 1)

NoResponse == Resp(0, "none", <<>>, 0)
NoSearch == [called |-> FALSE, threw |-> FALSE, docs |-> <<>>, embedded |-> FALSE,
             candidates |-> <<>>, similarity |-> <<>>, failed |-> {}, answers |-> <<>>]
FreshScores == [id \in CatalogIds |-> 0]

\* A chat request arrives: message and searchMode of the body.  reloaded says the
\* load of this request rebuilds the corpus objects (no searchScore yet); otherwise
\* the request works on the cached objects, which keep their searchScore.
ReceiveChat(message, mode, reloaded) ==
    /\ ~pending
    /\ pending' = TRUE
    /\ lastMessage' = message
    /\ lastMode' = mode
    /\ searchOutcome' = NoSearch
    /\ kwCall' = NoKw
    /\ searchScore' = IF reloaded THEN FreshScores ELSE searchScore
    /\ response' = NoResponse
    /\ completionCalls' = 0
    /\ UNCHANGED <<corpus, apiKeySet>>

\* POST handles the request, start to response: res is what searchKnowledge gives,
\* after the documents' searchScore it leaves, resp the response.
ChatPost(sims, vecFail, oracle) ==
    \E res \in {searchKnowledge(corpus, lastMessage, lastMode, sims, vecFail)} :
    \E searched \in {Trim(lastMessage) # <<>> /\ apiKeySet} :
    \E after \in {IF searched THEN ScoresAfter(searchScore, res) ELSE searchScore} :
    \E resp \in {PostResponse(lastMessage, res, after, oracle)} :
        /\ pending
        /\ pending' = FALSE
        /\ searchOutcome' = IF searched
                            THEN [called |-> TRUE, threw |-> res.threw, docs |-> res.docs,
                                  embedded |-> res.embedded,
                                  candidates |-> res.candidates,
                                  similarity |-> res.similarity, failed |-> res.failed,
                                  answers |-> res.answers]
                            ELSE NoSearch
        /\ kwCall' = IF searched THEN res.kw ELSE NoKw
        /\ searchScore' = after
        /\ response' = resp
        /\ completionCalls' = resp.completionCalls
        /\ UNCHANGED <<corpus, apiKeySet, lastMessage, lastMode>>

-----------------------------------------------------------------------------
(* The document stores: knowledgeStore (memory, KV list), KV hash, blob metadata *)

CACHE_DURATION == 2 * 60 * 1000

\* Date.now() when the process starts: more than CACHE_DURATION after the epoch
ProcessStart == 2 * CACHE_DURATION

\* a version an earlier process left under 'lab:docs:version'
EarlierVersion == CACHE_DURATION

\* file names of the uploads and ingestions, and the texts extraction can yield
Names == {"a.pdf", "b.pdf"}
FileTexts == {"", "text"}

\* largest number of clock advances
MaxTicks == 1

\* largest number of uploads and ingestions under way at once
MaxUploads == 1

\* ids: Date.now().toString() of a document created at millisecond t, and the ids
\* 'thesis_<n>' of the bundled knowledge base
DateNowId(t) == <<"ms", t>>
SeedId(n) == <<"thesis", n>>

Doc(id, name, status, content) ==
    [id |-> id, name |-> name, status |-> status, content |-> content]

\* list.findIndex(d => d.name === name), from 1; 0 when there is none
IndexByName(list, name) ==
    IF \E i \in 1..Len(list) : list[i].name = name
    THEN CHOOSE i \in 1..Len(list) :
             list[i].name = name /\ \A j \in 1..(i - 1) : list[j].name # name
    ELSE 0

\* list.findIndex(d => d.id === id), from 1; 0 when there is none
IndexById(list, id) ==
    IF \E i \in 1..Len(list) : list[i].id = id
    THEN CHOOSE i \in 1..Len(list) :
             list[i].id = id /\ \A j \in 1..(i - 1) : list[j].id # id
    ELSE 0

\* a variant of upsertByName that gives the entry of an uploaded-again name a new id
upsertByNameNewId(list, name, t) ==
    LET idx == IndexByName(list, name)
    IN  IF idx > 0 THEN [list EXCEPT ![idx].status = "processing", ![idx].id = DateNowId(t)]
        ELSE Append(list, Doc(DateNowId(t), name, "processing", ""))

\* the list after upsertDocumentByNameAsync(name): the entry of that name is set to
\* 'processing' (id and content kept), or a new entry with the id Date.now() is pushed
upsertByName(list, name, t) ==
    LET idx == IndexByName(list, name)
    IN  IF idx > 0 THEN [list EXCEPT ![idx].status = "processing"]
        ELSE Append(list, Doc(DateNowId(t), name, "processing", ""))

\* a variant of ErrorPatch that leaves the document 'processing'
StillProcessingPatch == [status |-> "processing", setContent |-> FALSE, content |-> ""]

\* the patches of updateDocumentAsync: { content, status: 'ready', author } and
\* { status: 'error' }
ReadyPatch(content) == [status |-> "ready", setContent |-> TRUE, content |-> content]
ErrorPatch == [status |-> "error", setContent |-> FALSE, content |-> ""]

\* { ...doc, ...patch }
ApplyPatch(doc, patch) ==
    [doc EXCEPT !.status = patch.status,
                !.content = IF patch.setContent THEN patch.content ELSE @]

\* updateDocument(id, patch) on a list: the first entry with the id is patched
updateDocument(list, id, patch) ==
    LET idx == IndexById(list, id)
    IN  IF idx > 0 THEN [list EXCEPT ![idx] = ApplyPatch(@, patch)] ELSE list

\* getDocumentsAsync: the KV list, or the memory list when KV is off or the read fails
getDocumentsAsync(kvOk) == IF kvEnabled /\ kvOk THEN kvDocs ELSE documents

\* upsertDocument of blobStore on the documents of metadata.json: the first entry
\* with the id or the name is replaced, or the document is pushed
upsertDocument(docs, doc) ==
    LET hits == {i \in 1..Len(docs) : docs[i].id = doc.id \/ docs[i].name = doc.name}
    IN  IF hits # {}
        THEN [docs EXCEPT ![CHOOSE i \in hits : \A j \in hits : i <= j] = doc]
        ELSE Append(docs, doc)

\* kv.hset('kb:doc:<id>', doc) with kv.zadd('kb:docs', { score: Date.now(), member: id }):
\* the document of that id is replaced and moves to the end of the score order
hsetDoc(hash, doc) ==
    FilterSeq(hash, {d \in Range(hash) : d.id # doc.id}) \o <<doc>>

\* Map.set(d.id, d) for each d of docs, on a Map kept as the list of its values:
\* overwrite says an id already in the map is replaced (else it is left alone)
RECURSIVE MapSetAll(_, _, _)
MapSetAll(map, docs, overwrite) ==
    IF docs = <<>> THEN map
    ELSE LET d == Head(docs)
             idx == IndexById(map, d.id)
             next == IF idx = 0 THEN Append(map, d)
                     ELSE IF overwrite THEN [map EXCEPT ![idx] = d]
                     ELSE map
         IN  MapSetAll(next, Tail(docs), overwrite)

\* the KV calls of one handler run succeed or fail together (kvOk); without KV
\* configured there is nothing to fail
KvOutcomes == IF kvEnabled THEN BOOLEAN ELSE {FALSE}

\* lastOp before the first operation
NoOp == "none"

\* ---- the vector store ----

\* ensureVectorsGradual vectorizes at most perRun missing documents per run
PerRun == 3

\* chunkText(text): the texts of the model are shorter than a chunk (1500 characters)
\* and than every maxChars limit, so a text is one chunk and the empty text is none
chunkText(text) == IF text = "" THEN <<>> ELSE <<text>>

\* what the embedding oracle returns for a chunk
Embedding(chunk) == <<"embedding", chunk>>

\* the VectorChunk list of a text
VectorChunks(text) ==
    [i \in 1..Len(chunkText(text)) |->
        [idx |-> i - 1, text |-> chunkText(text)[i],
         embedding |-> Embedding(chunkText(text)[i])]]

\* the vector store as an operation finds it: index and chunk lists, no embedding
\* requested yet, no request failed yet
VecState == [index |-> vecIndex, chunks |-> vecChunks, requested |-> {}, failed |-> FALSE]

\* storeDocVectors(docId, text, openai): embedOk says the embedding request succeeds
\* (that of a document of failingDocs never does); a failed request throws before
\* anything is written
storeDocVectors(vs, docId, text, embedOk) ==
    IF ~kvEnabled THEN vs
    ELSE IF chunkText(text) = <<>>
    THEN [vs EXCEPT !.chunks = (docId :> <<>>) @@ @]
    ELSE IF ~embedOk \/ docId \in failingDocs
    THEN [vs EXCEPT !.requested = @ \cup {docId}, !.failed = TRUE]
    ELSE [vs EXCEPT !.requested = @ \cup {docId},
                    !.chunks = (docId :> VectorChunks(text)) @@ @,
                    !.index = IF docId \in Range(@) THEN @ ELSE Append(@, docId)]

\* the loop of ensureVectorsGradual: the first failed request ends it
RECURSIVE StoreEach(_, _, _)
StoreEach(vs, docs, embedOk) ==
    IF docs = <<>> \/ vs.failed THEN vs
    ELSE StoreEach(storeDocVectors(vs, Head(docs).id, Head(docs).content, embedOk),
                   Tail(docs), embedOk)

\* a variant of MissingDocs that does not look at the index
MissingDocsAll(docs, index) == docs

\* the documents ensureVectorsGradual finds missing from the index
MissingDocs(docs, index) ==
    FilterSeq(docs, {d \in Range(docs) : d.id \notin Range(index)})

\* ensureVectorsGradual(docs, openai, 3, 8000)
ensureVectorsGradual(vs, docs, embedOk) ==
    IF ~kvEnabled THEN vs
    ELSE StoreEach(vs, Take(MissingDocs(docs, vs.index), PerRun), embedOk)

\* the outcomes of the embedding requests of an operation
EmbedOutcomes == IF apiKeySet /\ kvEnabled THEN BOOLEAN ELSE {TRUE}

\* an operation leaves the vector store as vs
Vectorized(vs) ==
    /\ vecIndex' = vs.index
    /\ vecChunks' = vs.chunks
    /\ embedRequested' = vs.requested

\* an operation that does not touch the vector store
NoVectorWrite == Vectorized(VecState)


\* bumpVersion after a write to the KV list: kv.set(VERSION_KEY, Date.now())
BumpVersion(written) ==
    /\ kvVersion' = IF written THEN now ELSE kvVersion
    /\ bumpedSinceFill' = (bumpedSinceFill \/ written)

\* the clock advances
Tick(delta) ==
    /\ ticks < MaxTicks
    /\ ticks' = ticks + 1
    /\ now' = now + delta
    /\ NoVectorWrite
    /\ UNCHANGED <<storeVars, thesisCache, cacheTimestamp, cacheKVVersion, kvVersion,
                   lastLoad, bumpedSinceFill>>

\* The upload route and the ingestion routes up to the return of
\* upsertDocumentByNameAsync(name): the document is upserted in the KV list, or in
\* memory when KV is off or fails; kind is "upload" (knowledge-base/upload), "local"
\* (ingest/local) or "url" (URL ingestion).
UpsertDocumentByName(name, kind, kvOk) ==
    LET useKV == kvEnabled /\ kvOk
        list == IF useKV THEN kvDocs ELSE documents
        newList == upsertByName(list, name, now)
        doc == newList[IndexByName(newList, name)]
        job == [id |-> doc.id, name |-> name, kind |-> kind]
    IN  /\ Cardinality(uploads \cup {job}) <= MaxUploads
        /\ uploads' = uploads \cup {job}
        /\ kvDocs' = IF useKV THEN newList ELSE kvDocs
        /\ documents' = IF useKV THEN documents ELSE newList
        /\ BumpVersion(useKV)
        /\ lastOp' = "upsert"
        /\ NoVectorWrite
        /\ UNCHANGED <<kvEnabled, kvHash, blobMeta, now, ticks, thesisCache,
                       cacheTimestamp, cacheKVVersion, lastLoad>>

\* updateDocumentAsync(id, patch): memory first, then the KV list when KV is on
UpdateDocumentAsync(id, patch, kvOk) ==
    /\ documents' = updateDocument(documents, id, patch)
    /\ kvDocs' = IF kvEnabled /\ kvOk THEN updateDocument(kvDocs, id, patch) ELSE kvDocs
    /\ BumpVersion(kvEnabled /\ kvOk)

\* processDocument of the upload route: the extraction yields a text ("" for a PDF
\* without text) and the document becomes 'ready', or it fails and the document
\* becomes 'error'; with an OpenAI key the text is vectorized.  Nothing it calls
\* throws past its try blocks, so POST answers 'Upload completed' either way.
ProcessDocument(job, extracted, kvOk) ==
    /\ job \in uploads /\ job.kind = "upload"
    /\ uploads' = uploads \ {job}
    /\ UpdateDocumentAsync(job.id,
           IF extracted.ok THEN ReadyPatch(extracted.text) ELSE ErrorPatch, kvOk)
    /\ \E embedOk \in EmbedOutcomes :
           Vectorized(IF apiKeySet /\ extracted.ok
                      THEN storeDocVectors(VecState, job.id, extracted.text, embedOk)
                      ELSE VecState)
    /\ lastOp' = IF extracted.ok THEN "process" ELSE "processFailed"
    /\ UNCHANGED <<kvEnabled, kvHash, blobMeta, now, ticks, thesisCache,
                   cacheTimestamp, cacheKVVersion, lastLoad>>

\* The local ingestion after its upsert: the document becomes 'ready' with the text
IngestLocal(job, text, kvOk) ==
    /\ job \in uploads /\ job.kind = "local"
    /\ uploads' = uploads \ {job}
    /\ UpdateDocumentAsync(job.id, ReadyPatch(text), kvOk)
    /\ \E embedOk \in EmbedOutcomes :
           Vectorized(IF apiKeySet /\ text # ""
                      THEN storeDocVectors(VecState, job.id, text, embedOk)
                      ELSE VecState)
    /\ lastOp' = "ingest"
    /\ UNCHANGED <<kvEnabled, kvHash, blobMeta, now, ticks, thesisCache,
                   cacheTimestamp, cacheKVVersion, lastLoad>>

\* The URL ingestion after its upsert: the document becomes 'ready' with the text,
\* is written to the KV hash and zset when KV is on, and to metadata.json
IngestPersist(job, text, kvOk, blobOk) ==
    LET doc == Doc(job.id, job.name, "ready", text)
    IN  /\ job \in uploads /\ job.kind = "url"
        /\ uploads' = uploads \ {job}
        /\ UpdateDocumentAsync(job.id, ReadyPatch(text), kvOk)
        /\ kvHash' = IF kvEnabled /\ kvOk THEN hsetDoc(kvHash, doc) ELSE kvHash
        /\ blobMeta' = IF blobOk THEN upsertDocument(blobMeta, doc) ELSE blobMeta
        /\ \E embedOk \in EmbedOutcomes :
               Vectorized(IF apiKeySet /\ text # ""
                          THEN storeDocVectors(VecState, job.id, text, embedOk)
                          ELSE VecState)
        /\ lastOp' = "ingest"
        /\ UNCHANGED <<kvEnabled, now, ticks, thesisCache, cacheTimestamp,
                       cacheKVVersion, lastLoad>>

\* POST /api/maintenance/backfill: the KV hash documents and the KV list are merged
\* into metadata.json (400 without KV)
Backfill(kvOk, blobOk) ==
    LET existing == MapSetAll(<<>>, blobMeta, TRUE)
        withHash == IF kvOk THEN MapSetAll(existing, kvHash, TRUE) ELSE existing
        merged == IF kvOk THEN MapSetAll(withHash, kvDocs, FALSE) ELSE withHash
    IN  /\ kvEnabled
        /\ blobMeta' = IF blobOk THEN merged ELSE blobMeta
        /\ lastOp' = "backfill"
        /\ NoVectorWrite
        /\ UNCHANGED <<kvEnabled, documents, kvDocs, kvHash, uploads, cacheVars>>

\* POST /api/maintenance/reset, which answers { ok: true }: metadata.json is
\* emptied (a failed write goes unnoticed), and with KV on the hash documents, the
\* zset and the KV list are cleared
Reset(kvOk, blobOk) ==
    /\ blobMeta' = IF blobOk THEN <<>> ELSE blobMeta
    /\ kvHash' = IF kvEnabled /\ kvOk THEN <<>> ELSE kvHash
    /\ kvDocs' = IF kvEnabled /\ kvOk THEN <<>> ELSE kvDocs
    /\ lastOp' = "reset"
    /\ NoVectorWrite
    /\ UNCHANGED <<kvEnabled, documents, uploads, cacheVars>>

-----------------------------------------------------------------------------
(* loadThesisData: the merge of the backends and the corpus cache *)

\* the bundled knowledge base (one thesis stands for the list)
SeedDocs == <<[id |-> SeedId(1), title |-> "thesis", content |-> "seed"]>>

\* no code of the repository calls upsertDocumentShard: readAllDocuments finds no
\* document under kb/docs/
blobShards == <<>>

\* the content of a document without text
Placeholder(name) == "meta-only:" \o name

\* the corpus entry made of a stored document
Entry(d) ==
    [id |-> d.id, title |-> d.name,
     content |-> IF d.content # "" THEN d.content ELSE Placeholder(d.name)]

RECURSIVE Entries(_)
Entries(docs) == IF docs = <<>> THEN <<>> ELSE <<Entry(Head(docs))>> \o Entries(Tail(docs))

\* docs.forEach(d => { if (!ids.has(d.id)) thesisData.push(entry(d)) }), with ids the
\* ids of thesisData before the loop
PushUnlessKnown(thesisData, docs) ==
    LET ids == {thesisData[i].id : i \in 1..Len(thesisData)}
        fresh == {i \in 1..Len(docs) : docs[i].id \notin ids}
        RECURSIVE Pick(_)
        Pick(i) == IF i > Len(docs) THEN <<>>
                   ELSE (IF i \in fresh THEN <<Entry(docs[i])>> ELSE <<>>) \o Pick(i + 1)
    IN  thesisData \o Pick(1)

\* the corpus loadThesisData builds: the seed, every shard document, then the
\* documents of metadata.json and of the store whose id is not there yet
Merge(metaDocs, storeDocs) ==
    LET withShards == SeedDocs \o Entries(blobShards)
        withMeta == PushUnlessKnown(withShards, metaDocs)
    IN  PushUnlessKnown(withMeta, storeDocs)

\* readAt is the time the cached corpus was read from the backends
NoCache == [filled |-> FALSE, docs |-> <<>>, readAt |-> 0]
\* lastLoad before the first read: seq alternates between 0 and 1 with every read
\* the two requests whose loadThesisData calls run side by side
Requests == {"A", "B"}
NoCall == [pc |-> "idle", now |-> 0, noCache |-> FALSE, data |-> <<>>, readAt |-> 0,
           served |-> "none", result |-> <<>>, clean |-> TRUE, overlap |-> FALSE]
NoCalls == [r \in Requests |-> NoCall]

NoLoad == [seq |-> 0, noCache |-> FALSE, remoteVersion |-> Null, served |-> "none",
           readsOk |-> FALSE]

\* the cache check of loadThesisData, for a call that read Date.now() as startedAt
CacheValidAt(startedAt, noCache, remoteVersion) ==
    LET cacheValidByTime == (startedAt - cacheTimestamp) < CACHE_DURATION
        cacheValidByVersion ==
            cacheKVVersion # Null /\ remoteVersion # Null /\ remoteVersion = cacheKVVersion
    IN  ~noCache /\ thesisCache.filled /\ cacheValidByTime /\ cacheValidByVersion

\* a variant of CacheValid that trusts the age of the cache alone
CacheValidByTimeOnly(noCache, remoteVersion) ==
    ~noCache /\ thesisCache.filled /\ (now - cacheTimestamp) < CACHE_DURATION

\* the cache check of a call that runs in one step
CacheValid(noCache, remoteVersion) == CacheValidAt(now, noCache, remoteVersion)

\* a variant of FillVersion that always records the call's own clock
FillVersionOwnClock(startedAt, remoteVersion) == startedAt

\* _cacheKVVersion after a fill: the remote version if it is a number, else the
\* Date.now() the call read at its start
FillVersion(startedAt, remoteVersion) ==
    IF remoteVersion # Null THEN remoteVersion ELSE startedAt

\* loadThesisData(req): noCache says the request carries x-no-cache: 1 or a
\* cache-control with no-cache; kvOk and blobOk say the reads of KV and of the blob
\* store succeed.  It returns the cache, or rebuilds the corpus, fills the cache
\* and, with an OpenAI key, vectorizes up to PerRun documents missing from the index.
\* lastLoad records the inputs of the read (the header, what the version read
\* returned, whether the reads succeeded) and where its result came from.
LoadThesisData(noCache, kvOk, blobOk) ==
    LET remoteVersion == IF kvEnabled /\ kvOk THEN kvVersion ELSE Null
        hit == CacheValid(noCache, remoteVersion)
        storeDocs == getDocumentsAsync(kvOk)
        thesisData == Merge(IF blobOk THEN blobMeta ELSE <<>>, storeDocs)
    IN  /\ lastLoad' = [seq |-> 1 - lastLoad.seq, noCache |-> noCache,
                        remoteVersion |-> remoteVersion,
                        served |-> IF hit THEN "cache" ELSE "reload",
                        readsOk |-> (kvOk \/ ~kvEnabled) /\ blobOk]
        /\ thesisCache' = IF hit THEN thesisCache
                          ELSE [filled |-> TRUE, docs |-> thesisData, readAt |-> now]
        /\ cacheTimestamp' = IF hit THEN cacheTimestamp ELSE now
        /\ cacheKVVersion' = IF hit THEN cacheKVVersion ELSE FillVersion(now, remoteVersion)
        /\ bumpedSinceFill' = IF hit THEN bumpedSinceFill ELSE FALSE
        /\ \E embedOk \in EmbedOutcomes :
               Vectorized(IF ~hit /\ apiKeySet
                          THEN ensureVectorsGradual(VecState, thesisData, embedOk)
                          ELSE VecState)
        /\ lastOp' = "load"
        /\ UNCHANGED <<kvEnabled, documents, kvDocs, kvHash, blobMeta, uploads,
                       now, ticks, kvVersion>>

-----------------------------------------------------------------------------
(* The specifications of the stores and of the cache *)

\* what the extraction of an uploaded file yields
Extractions == {[ok |-> TRUE, text |-> t] : t \in FileTexts} \cup {[ok |-> FALSE, text |-> ""]}

\* no embedding request is refused for good, and no step-by-step call has begun
NoStoreCalls == <<>>
NoReadAll == [pc |-> "idle"]
NoChunker == [pc |-> "idle"]
RunsIdle ==
    /\ failingDocs = {} /\ storeCalls = NoStoreCalls /\ readAll = NoReadAll
    /\ chunker = NoChunker

SearchIdle ==
    /\ corpus = <<>> /\ apiKeySet = FALSE /\ lastMessage = <<>> /\ lastMode = NoRequest
    /\ pending = FALSE /\ searchOutcome = NoSearch /\ kwCall = NoKw
    /\ searchScore = FreshScores /\ response = NoResponse /\ completionCalls = 0

StoresQuiet ==
    /\ kvEnabled = FALSE /\ documents = <<>> /\ kvDocs = <<>> /\ kvHash = <<>>
    /\ blobMeta = <<>> /\ uploads = {} /\ lastOp = NoOp
    /\ now = ProcessStart /\ ticks = 0 /\ thesisCache = NoCache /\ cacheTimestamp = 0
    /\ cacheKVVersion = Null /\ kvVersion = Null /\ lastLoad = NoLoad
    /\ bumpedSinceFill = FALSE
    /\ loadCalls = NoCalls /\ vecIndex = <<>> /\ vecChunks = <<>> /\ embedRequested = {}

StoresIdle == StoresQuiet /\ RunsIdle

\* a process starts: KV configured or not, the stores empty, the version key never
\* written or left by an earlier process
StoresAtStart ==
    /\ kvEnabled \in BOOLEAN
    /\ documents = <<>> /\ kvDocs = <<>> /\ kvHash = <<>> /\ blobMeta = <<>>
    /\ uploads = {} /\ lastOp = NoOp
    /\ now = ProcessStart /\ ticks = 0
    /\ thesisCache = NoCache /\ cacheTimestamp = 0 /\ cacheKVVersion = Null
    /\ kvVersion \in (IF kvEnabled THEN {Null, EarlierVersion} ELSE {Null})
    /\ lastLoad = NoLoad /\ bumpedSinceFill = FALSE
    /\ loadCalls = NoCalls /\ vecIndex = <<>> /\ vecChunks = <<>> /\ embedRequested = {}
    /\ RunsIdle

\* no OpenAI key is set: nothing is vectorized
StoreInit == SearchIdle /\ StoresAtStart

\* CacheSpec: reads of the corpus while one file is uploaded again and again and the
\* clock advances by CACHE_DURATION or by a millisecond less
TickSteps == {CACHE_DURATION - 1, CACHE_DURATION}

CacheNext ==
    \/ \E delta \in TickSteps : Tick(delta) /\ UNCHANGED <<searchVars, loadCalls, runVars>>
    \/ \E kvOk \in KvOutcomes :
           UpsertDocumentByName("a.pdf", "upload", kvOk) /\ UNCHANGED <<searchVars, loadCalls, runVars>>
    \/ \E job \in uploads, kvOk \in KvOutcomes :
           ProcessDocument(job, [ok |-> TRUE, text |-> "text"], kvOk)
           /\ UNCHANGED <<searchVars, loadCalls, runVars>>
    \/ \E noCache \in BOOLEAN, kvOk \in KvOutcomes :
           LoadThesisData(noCache, kvOk, TRUE) /\ UNCHANGED <<searchVars, loadCalls, runVars>>

CacheSpec == StoreInit /\ [][CacheNext]_vars

\* UploadSpec: uploads and local ingestions of two files, millisecond by millisecond;
\* the KV write of a processing step may fail
UploadNext ==
    \/ Tick(1) /\ UNCHANGED <<searchVars, loadCalls, runVars>>
    \/ \E name \in Names, kind \in {"upload", "local"} :
           UpsertDocumentByName(name, kind, kvEnabled) /\ UNCHANGED <<searchVars, loadCalls, runVars>>
    \/ \E job \in uploads, extracted \in Extractions, kvOk \in KvOutcomes :
           ProcessDocument(job, extracted, kvOk) /\ UNCHANGED <<searchVars, loadCalls, runVars>>
    \/ \E job \in uploads, text \in FileTexts, kvOk \in KvOutcomes :
           IngestLocal(job, text, kvOk) /\ UNCHANGED <<searchVars, loadCalls, runVars>>

UploadSpec == StoreInit /\ [][UploadNext]_vars

\* StoreSpec: uploads and URL ingestions of one file, backfill, reset, and reads of
\* the corpus that bypass the cache
StoreNext ==
    \/ Tick(1) /\ UNCHANGED <<searchVars, loadCalls, runVars>>
    \/ \E kind \in {"upload", "url"} :
           UpsertDocumentByName("a.pdf", kind, kvEnabled) /\ UNCHANGED <<searchVars, loadCalls, runVars>>
    \/ \E job \in uploads, extracted \in Extractions :
           ProcessDocument(job, extracted, kvEnabled) /\ UNCHANGED <<searchVars, loadCalls, runVars>>
    \/ \E job \in uploads, text \in FileTexts :
           IngestPersist(job, text, kvEnabled, TRUE) /\ UNCHANGED <<searchVars, loadCalls, runVars>>
    \/ Backfill(TRUE, TRUE) /\ UNCHANGED <<searchVars, loadCalls, runVars>>
    \/ \E blobOk \in BOOLEAN : Reset(kvEnabled, blobOk) /\ UNCHANGED <<searchVars, loadCalls, runVars>>
    \/ LoadThesisData(TRUE, kvEnabled, TRUE) /\ UNCHANGED <<searchVars, loadCalls, runVars>>

StoreSpec == StoreInit /\ [][StoreNext]_vars

-----------------------------------------------------------------------------
(* loadThesisData step by step: two calls side by side *)

\* a variant of FillTimestamp that reads the clock when the cache is written
FillTimestampAtWrite(call) == now

\* _cacheTimestamp after a fill: the Date.now() the call read at its start
FillTimestamp(call) == call.now

\* the call of request r starts: it reads Date.now() and the request's headers
LoadBegin(r, noCache) ==
    /\ loadCalls[r].pc = "idle"
    /\ loadCalls' = [loadCalls EXCEPT ![r] =
           [NoCall EXCEPT !.pc = "begun", !.now = now, !.noCache = noCache,
                          !.overlap = \E o \in Requests \ {r} :
                                          loadCalls[o].pc \notin {"idle", "done"}]]
    /\ NoVectorWrite
    /\ UNCHANGED <<storeVars, now, ticks, thesisCache, cacheTimestamp, cacheKVVersion,
                   kvVersion, lastLoad, bumpedSinceFill>>

\* it has read the remote version and checks the cache: it returns the cached corpus
\* or goes on to rebuild the corpus
LoadCheck(r) ==
    LET call == loadCalls[r]
        remoteVersion == IF kvEnabled THEN kvVersion ELSE Null
        hit == CacheValidAt(call.now, call.noCache, remoteVersion)
    IN  /\ call.pc = "begun"
        /\ loadCalls' = [loadCalls EXCEPT ![r] =
               IF hit THEN [call EXCEPT !.pc = "done", !.served = "cache",
                                        !.result = thesisCache.docs,
                                        !.readAt = thesisCache.readAt]
               ELSE [call EXCEPT !.pc = "loading"]]
        /\ NoVectorWrite
        /\ UNCHANGED <<storeVars, now, ticks, thesisCache, cacheTimestamp,
                       cacheKVVersion, kvVersion, lastLoad, bumpedSinceFill>>

\* it has read the backends and merged them into its thesisData
LoadRead(r) ==
    /\ loadCalls[r].pc = "loading"
    /\ loadCalls' = [loadCalls EXCEPT ![r] =
           [@ EXCEPT !.pc = "read", !.data = Merge(blobMeta, getDocumentsAsync(TRUE)),
                     !.readAt = now]]
    /\ NoVectorWrite
    /\ UNCHANGED <<storeVars, now, ticks, thesisCache, cacheTimestamp, cacheKVVersion,
                   kvVersion, lastLoad, bumpedSinceFill>>

\* it writes _thesisCache and _cacheTimestamp, then waits for the version read
LoadFill(r) ==
    LET call == loadCalls[r]
    IN  /\ call.pc = "read"
        /\ thesisCache' = [filled |-> TRUE, docs |-> call.data, readAt |-> call.readAt]
        /\ cacheTimestamp' = FillTimestamp(call)
        /\ loadCalls' = [loadCalls EXCEPT ![r] = [call EXCEPT !.pc = "filled"]]
        /\ NoVectorWrite
        /\ UNCHANGED <<storeVars, now, ticks, cacheKVVersion, kvVersion, lastLoad,
                       bumpedSinceFill>>

\* the version read is back: it writes _cacheKVVersion, vectorizes missing documents
\* if an OpenAI key is set, and returns its thesisData
LoadReturn(r) ==
    LET call == loadCalls[r]
        remoteVersion == IF kvEnabled THEN kvVersion ELSE Null
    IN  /\ call.pc = "filled"
        /\ cacheKVVersion' = FillVersion(call.now, remoteVersion)
        /\ bumpedSinceFill' = FALSE
        /\ loadCalls' = [loadCalls EXCEPT ![r] =
               [call EXCEPT !.pc = "done", !.served = "reload", !.result = call.data]]
        /\ \E embedOk \in EmbedOutcomes :
               Vectorized(IF apiKeySet
                          THEN ensureVectorsGradual(VecState, call.data, embedOk)
                          ELSE VecState)
        /\ UNCHANGED <<storeVars, now, ticks, thesisCache, cacheTimestamp, kvVersion,
                       lastLoad>>

\* the running and finished calls have seen a storage write since they began
AfterWrite ==
    [r \in Requests |->
        IF loadCalls[r].pc = "idle" THEN loadCalls[r]
        ELSE [loadCalls[r] EXCEPT !.clean = FALSE]]

\* LoadSpec: the two calls step by step, while the clock advances and one file is
\* uploaded and processed; request B asks for no cache
LoadTickSteps == {CACHE_DURATION - 1, CACHE_DURATION + 1}

LoadNext ==
    \/ \E delta \in LoadTickSteps : Tick(delta) /\ UNCHANGED <<searchVars, loadCalls, runVars>>
    \/ UpsertDocumentByName("a.pdf", "upload", kvEnabled)
           /\ loadCalls' = AfterWrite /\ UNCHANGED <<searchVars, runVars>>
    \/ \E job \in uploads :
           ProcessDocument(job, [ok |-> TRUE, text |-> "text"], kvEnabled)
           /\ loadCalls' = AfterWrite /\ UNCHANGED <<searchVars, runVars>>
    \/ \E r \in Requests : LoadBegin(r, r = "B") /\ UNCHANGED <<searchVars, runVars>>
    \/ \E r \in Requests : LoadCheck(r) /\ UNCHANGED <<searchVars, runVars>>
    \/ \E r \in Requests : LoadRead(r) /\ UNCHANGED <<searchVars, runVars>>
    \/ \E r \in Requests : LoadFill(r) /\ UNCHANGED <<searchVars, runVars>>
    \/ \E r \in Requests : LoadReturn(r) /\ UNCHANGED <<searchVars, runVars>>

LoadSpec == StoreInit /\ [][LoadNext]_vars

\* VectorSpec: with an OpenAI key, uploads and local ingestions of one file,
\* millisecond by millisecond, and reads of the corpus that bypass the cache
VectorInit ==
    /\ corpus = <<>> /\ apiKeySet = TRUE /\ lastMessage = <<>> /\ lastMode = NoRequest
    /\ pending = FALSE /\ searchOutcome = NoSearch /\ kwCall = NoKw
    /\ searchScore = FreshScores /\ response = NoResponse /\ completionCalls = 0
    /\ StoresAtStart

VectorNext ==
    \/ Tick(1) /\ UNCHANGED <<searchVars, loadCalls, runVars>>
    \/ \E kind \in {"upload", "local"} :
           UpsertDocumentByName("a.pdf", kind, kvEnabled)
           /\ UNCHANGED <<searchVars, loadCalls, runVars>>
    \/ \E job \in uploads, extracted \in Extractions :
           ProcessDocument(job, extracted, kvEnabled) /\ UNCHANGED <<searchVars, loadCalls, runVars>>
    \/ \E job \in uploads, text \in FileTexts :
           IngestLocal(job, text, kvEnabled) /\ UNCHANGED <<searchVars, loadCalls, runVars>>
    \/ LoadThesisData(TRUE, kvEnabled, TRUE) /\ UNCHANGED <<searchVars, loadCalls, runVars>>

VectorSpec == VectorInit /\ [][VectorNext]_vars

-----------------------------------------------------------------------------
(* The requests and corpora of the search specification *)

\* the words a query is made of
Vocabulary ==
    { ONO, ONO_TARO, EEG, PEG, <<"(">>, <<"e", ".", "g">>, <<"7", "7">>,
      EEG \o <<"hNo">> \o KENKYU,
      EEG \o <<"jc">> \o ONO }

\* the messages: one word, a name followed by a word, and a blank message
Messages ==
    {w : w \in Vocabulary}
    \cup {w1 \o SP \o w2 : w1 \in {ONO, PEG}, w2 \in Vocabulary}
    \cup {SP}

SearchModes == {"keyword", "semantic"}

\* similarities in percent: at the floor, and two above it
SimLevels == {10, 20, 90}

\* the cosine of 1536 random numbers in [0, 1) with the query embedding: next to
\* nothing against a real embedding, about three quarters when the query's own
\* request failed too and it is 1536 random numbers as well
RandomSims == {0, 3, 75}

\* a document that is not indexed: the cosine of its on-the-fly embedding
Direct(s) == [chunks |-> <<>>, direct |-> s]
\* an indexed document: the cosines of its stored chunks
Stored(chunkSims) == [chunks |-> chunkSims, direct |-> 0]

\* what the vector store and the embedding oracle answer for one document
DocAnswers == {Direct(s) : s \in SimLevels \ {90}} \cup {Stored(<<90, 20>>)}

\* the answers for the archive: by turns two stored chunks, 20, 90 and, for the
\* fourth, one stored chunk that points away from the query (document 7), the floor
\* (document 15) or 20
ArchiveAnswers(k) ==
    [id \in ArchiveIds |->
        CASE ((id \div 2) + k) % 4 = 0 -> Stored(<<90, 20>>)
          [] ((id \div 2) + k) % 4 = 1 -> Direct(20)
          [] ((id \div 2) + k) % 4 = 2 -> Direct(90)
          [] OTHER -> IF id = 7 THEN Stored(<<-20>>)
                      ELSE IF id = 15 THEN Direct(SimilarityFloor) ELSE Direct(20)]

\* largest number of documents in a corpus of the search specification
MaxCorpus == 2

\* the archive as a corpus: the document without eeg is the second that was loaded
Archive == <<5, 16>> \o [i \in 1..(Cardinality(ArchiveIds) - 2) |-> i + 5]

\* the corpora: the sequences without repetition of 1..MaxCorpus of the documents
\* 1..4, and the archive
RECURSIVE SeqsNoRepeat(_, _)
SeqsNoRepeat(S, n) ==
    IF n = 0 THEN {<<>>}
    ELSE LET shorter == SeqsNoRepeat(S, n - 1)
         IN  shorter \cup {Append(q, x) : q \in {r \in shorter : Len(r) = n - 1},
                                          x \in S} 
Corpora == {c \in SeqsNoRepeat(CatalogIds \ ArchiveIds, MaxCorpus) :
               c # <<>> /\ Cardinality(Range(c)) = Len(c)}
           \cup {Archive}

\* the request reaches the embedding rerank of semanticSearch (if the index is read)
ReachesRerank(kb, message, mode) ==
    /\ Trim(message) # <<>> /\ apiKeySet
    /\ mode # "keyword" /\ ~IsFieldInquiry(message) /\ AuthorGuardDocs(kb, message) = <<>>
    /\ Len(PrefilterCandidates(kb, message)) \in 1..10

\* the answers when no embedding request fails
AllEmbedded(answers) == [doc |-> answers, failed |-> {}, noise |-> 0]

\* the answers of a small corpus: they vary for its first and its last document,
\* a document in between is at 20
CorpusAnswers(kb) ==
    {[id \in Range(kb) |-> IF id \in {kb[1], kb[Len(kb)]} THEN varied[id] ELSE Direct(20)] :
        varied \in [{kb[1], kb[Len(kb)]} -> DocAnswers]}

\* The answers that matter to a request: one per rerank outcome.  When an embedding
\* request fails it is that of the first document of the corpus, no document is
\* indexed and the other documents are at 20.
SimChoices(kb, message, mode) ==
    IF ReachesRerank(kb, message, mode)
    THEN {AllEmbedded(answers) :
             answers \in (IF kb = Archive THEN {ArchiveAnswers(k) : k \in 0..3}
                          ELSE CorpusAnswers(kb))}
         \cup {[doc |-> [id \in Range(kb) |-> Direct(20)], failed |-> {kb[1]},
                 noise |-> n] : n \in RandomSims}
    ELSE {AllEmbedded([id \in Range(kb) |-> Direct(SimilarityFloor)])}

\* the index read can fail only where it is made
VecFailChoices(kb, message, mode) ==
    IF ReachesRerank(kb, message, mode) THEN BOOLEAN ELSE {FALSE}

SearchInit ==
    /\ corpus \in Corpora
    /\ apiKeySet \in BOOLEAN
    /\ lastMessage = <<>>
    /\ lastMode = NoRequest
    /\ pending = FALSE
    /\ searchOutcome = NoSearch
    /\ kwCall = NoKw
    /\ searchScore = FreshScores
    /\ response = NoResponse
    /\ completionCalls = 0
    /\ StoresIdle

SearchNext ==
    \/ \E message \in Messages, mode \in SearchModes :
           ReceiveChat(message, mode, TRUE) /\ UNCHANGED <<storeVars, cacheVars, loadCalls, vecVars, runVars>>
    \/ \E sims \in SimChoices(corpus, lastMessage, lastMode),
          vecFail \in VecFailChoices(corpus, lastMessage, lastMode) :
           ChatPost(sims, vecFail, "text") /\ UNCHANGED <<storeVars, cacheVars, loadCalls, vecVars, runVars>>

SearchSpec == SearchInit /\ [][SearchNext]_vars

-----------------------------------------------------------------------------
(* blobStore.upsertDocument, call after call *)

\* largest number of documents kept in metadata.json
MaxBlobDocs == 3

\* the documents the URL ingestion hands to upsertDocument of blobStore: 'ready',
\* with the id the store gave the name (a Date.now() of the process) and the text
BlobIds == {DateNowId(ProcessStart + k) : k \in 0..2}
BlobDocs == {Doc(id, name, "ready", text) : id \in BlobIds, name \in Names, text \in {"text"}}

\* upsertDocument(doc) of blobStore, from readMetadata to writeMetadata, both succeeding
BlobUpsert(doc) ==
    /\ Len(upsertDocument(blobMeta, doc)) <= MaxBlobDocs
    /\ blobMeta' = upsertDocument(blobMeta, doc)
    /\ lastOp' = "blobUpsert"
    /\ NoVectorWrite
    /\ UNCHANGED <<kvEnabled, documents, kvDocs, kvHash, uploads, cacheVars>>

\* BlobSpec: upsertDocument calls one after the other, from an empty metadata.json
BlobNext == \E doc \in BlobDocs : BlobUpsert(doc) /\ UNCHANGED <<searchVars, loadCalls, runVars>>

BlobSpec == StoreInit /\ [][BlobNext]_vars

-----------------------------------------------------------------------------
(* chunkText on the characters of a text *)

\* longest text handed to chunkText, and largest maxLen
MaxText == 4
MaxChunkLen == 3

\* the texts of at most n characters over an alphabet
TextsOver(alphabet, n) == UNION {[1..k -> alphabet] : k \in 0..n}

\* Math.min(a, b)
MinOf(a, b) == IF a <= b THEN a ELSE b

\* text.slice(from, to) for 0 <= from <= to <= text.length, counted from 0
TextSlice(text, from, to) == SubSeq(text, from + 1, to)

\* a loop that stops as soon as fewer than maxLen characters are left
RECURSIVE ChunkTextWholeOnly(_, _, _, _)
ChunkTextWholeOnly(text, maxLen, cursor, chunks) ==
    IF cursor + maxLen <= Len(text)
    THEN ChunkTextWholeOnly(text, maxLen, cursor + maxLen,
                            Append(chunks, TextSlice(text, cursor, cursor + maxLen)))
    ELSE chunks

\* the while loop of chunkText: while (cursor < n) { end = Math.min(n, cursor + maxLen);
\* chunks.push(text.slice(cursor, end)); cursor = end }
RECURSIVE ChunkTextLoop(_, _, _, _)
ChunkTextLoop(text, maxLen, cursor, chunks) ==
    IF cursor < Len(text)
    THEN ChunkTextLoop(text, maxLen, MinOf(Len(text), cursor + maxLen),
                       Append(chunks, TextSlice(text, cursor, MinOf(Len(text), cursor + maxLen))))
    ELSE chunks

\* chunkText(text, maxLen), on the characters of the text
chunkTextBy(text, maxLen) == ChunkTextLoop(text, maxLen, 0, <<>>)

\* the calls of chunkText: a text and a maxLen of at least 1
ChunkInputs ==
    {[pc |-> "called", text |-> t, maxLen |-> m, chunks |-> <<>>] :
        t \in TextsOver({"a", "b"}, MaxText), m \in 1..MaxChunkLen}

\* chunkText from its call to its return
ChunkTextReturns ==
    /\ chunker.pc = "called"
    /\ chunker' = [chunker EXCEPT !.pc = "returned",
                                  !.chunks = chunkTextBy(chunker.text, chunker.maxLen)]
    /\ UNCHANGED <<failingDocs, storeCalls, readAll>>

ChunkInit ==
    /\ SearchIdle /\ StoresQuiet
    /\ failingDocs = {} /\ storeCalls = NoStoreCalls /\ readAll = NoReadAll
    /\ chunker \in ChunkInputs

\* ChunkSpec: every call of chunkText on a short text
ChunkNext ==
    ChunkTextReturns /\ UNCHANGED <<searchVars, storeVars, cacheVars, loadCalls, vecVars>>

ChunkSpec == ChunkInit /\ [][ChunkNext]_vars

-----------------------------------------------------------------------------
(* splitTextIntoChunks of the translate route, iteration by iteration *)

\* largest number of pushes of the inner while loop the chunk list records
MaxPushes == 2

\* the sentence ends of /(?<=[.。！？!?])\s+/ among the characters of the texts
SentenceEnds == {"."}

\* text.split(/(?<=[.。！？!?])\s+/): the text is cut at every run of white space
\* that follows a sentence end; i is the position looked at, start the first
\* position of the piece under way
RECURSIVE WhiteSpaceRunEnd(_, _)
WhiteSpaceRunEnd(text, i) ==
    IF i < Len(text) /\ text[i + 1] \in WhiteSpace THEN WhiteSpaceRunEnd(text, i + 1) ELSE i

RECURSIVE SplitSentencesFrom(_, _, _, _)
SplitSentencesFrom(text, i, start, pieces) ==
    IF i > Len(text) THEN Append(pieces, SubSeq(text, start, Len(text)))
    ELSE IF text[i] \in WhiteSpace /\ i > 1 /\ text[i - 1] \in SentenceEnds
         THEN SplitSentencesFrom(text, WhiteSpaceRunEnd(text, i) + 1,
                                 WhiteSpaceRunEnd(text, i) + 1,
                                 Append(pieces, SubSeq(text, start, i - 1)))
         ELSE SplitSentencesFrom(text, i + 1, start, pieces)

SplitSentences(text) == SplitSentencesFrom(text, 1, 1, <<>>)

\* sentence.substring(0, maxChunkSize)
SubstringTo(sentence, maxChunkSize) == SubSeq(sentence, 1, MinOf(Len(sentence), maxChunkSize))

\* the calls of splitTextIntoChunks: a text and a maxChunkSize of at least 1
SplitInputs ==
    {[pc |-> "called", text |-> t, maxChunkSize |-> m] :
        t \in TextsOver({"a", ".", " "}, MaxText), m \in 1..MaxChunkLen}

\* lines 143-146: the chunk list, the sentences and currentChunk are set up
SplitBegins ==
    /\ chunker.pc = "called"
    /\ chunker' = [pc |-> "for", text |-> chunker.text,
                   maxChunkSize |-> chunker.maxChunkSize,
                   sentences |-> SplitSentences(chunker.text),
                   currentChunk |-> <<>>, chunks |-> <<>>, round |-> 0]

\* one iteration of for (const sentence of sentences), up to the inner while loop
SplitForSentence ==
    /\ chunker.pc = "for" /\ chunker.sentences # <<>>
    /\ \E sentence \in {Head(chunker.sentences)} :
         chunker' =
           IF Len(chunker.currentChunk \o sentence) <= chunker.maxChunkSize
           THEN [chunker EXCEPT
                   !.currentChunk = chunker.currentChunk
                                    \o (IF chunker.currentChunk # <<>> THEN SP ELSE <<>>)
                                    \o sentence,
                   !.sentences = Tail(chunker.sentences)]
           ELSE IF chunker.currentChunk # <<>>
           THEN [chunker EXCEPT
                   !.chunks = Append(chunker.chunks, Trim(chunker.currentChunk)),
                   !.currentChunk = sentence,
                   !.sentences = Tail(chunker.sentences)]
           ELSE [chunker EXCEPT !.pc = "while"]

\* one test of while (sentence.length > maxChunkSize) and the body it guards:
\* the first maxChunkSize characters are pushed and the sentence, a const, stays as
\* it is (the substring of line 158 is thrown away). The list records MaxPushes
\* pushes; round tells one further iteration from the next
SplitWhileSentenceTooLong ==
    /\ chunker.pc = "while"
    /\ \E sentence \in {Head(chunker.sentences)} :
         chunker' =
           IF Len(sentence) > chunker.maxChunkSize
           THEN IF Len(chunker.chunks) < MaxPushes
                THEN [chunker EXCEPT
                        !.chunks = Append(chunker.chunks,
                                          SubstringTo(sentence, chunker.maxChunkSize))]
                ELSE [chunker EXCEPT !.round = 1 - chunker.round]
           ELSE [chunker EXCEPT !.pc = "for", !.currentChunk = sentence,
                                !.sentences = Tail(chunker.sentences)]

\* lines 166-170: the last currentChunk is pushed and the chunks that are not empty
\* are returned
SplitReturns ==
    /\ chunker.pc = "for" /\ chunker.sentences = <<>>
    /\ chunker' = [chunker EXCEPT
                     !.pc = "returned",
                     !.chunks = SelectSeq(IF chunker.currentChunk # <<>>
                                          THEN Append(chunker.chunks, Trim(chunker.currentChunk))
                                          ELSE chunker.chunks,
                                          LAMBDA chunk : Len(chunk) > 0)]

SplitInit ==
    /\ SearchIdle /\ StoresQuiet
    /\ failingDocs = {} /\ storeCalls = NoStoreCalls /\ readAll = NoReadAll
    /\ chunker \in SplitInputs

SplitNext ==
    /\ \/ SplitBegins
       \/ SplitForSentence
       \/ SplitWhileSentenceTooLong
       \/ SplitReturns
    /\ UNCHANGED <<searchVars, storeVars, cacheVars, loadCalls, vecVars,
                   failingDocs, storeCalls, readAll>>

\* SplitSpec: every call of splitTextIntoChunks on a short text. The function is
\* synchronous: once called it takes its next step as long as it has one
SplitSpec == SplitInit /\ [][SplitNext]_vars

SplitFairSpec == SplitSpec /\ WF_vars(SplitNext)

-----------------------------------------------------------------------------
(* readAllDocuments of blobStore, await by await *)

\* const concurrency = 5
Concurrency == 5

\* largest number of blobs list() returns
MaxBlobs == 6

Workers == 1..Concurrency

\* a worker that took no blob
NoBlob == 0

\* how a fetch settles (res.ok, a response that is not ok, a rejection) and how
\* res.json() settles
FetchOutcomes == {"ok", "notOk", "throws"}
JsonOutcomes == {"ok", "throws"}

\* i++ of blobs[i++] that leaves the cursor where it is
CursorKept(i) == i

\* i++ of blobs[i++]: the cursor after a worker took blobs[i]
CursorAfterTake(i) == i + 1

\* while (i < blobs.length) { const b = blobs[i++]; ... fetch(u) }: worker w tests
\* the cursor and either takes the next blob and starts its fetch, or ends.
\* No await lies between the test and the take. started counts the fetches of a blob
WorkerTakes(run, w) ==
    IF run.i < run.n
    THEN [run EXCEPT !.workers[w] = [pc |-> "fetch", blob |-> run.i + 1],
                     !.i = CursorAfterTake(run.i),
                     !.started[run.i + 1] = run.started[run.i + 1] + 1]
    ELSE [run EXCEPT !.workers[w] = [pc |-> "done", blob |-> NoBlob]]

\* Array.from({ length: concurrency }, () => worker()): the workers are called one
\* after the other, each running to its first await
RECURSIVE StartWorkers(_, _)
StartWorkers(run, w) ==
    IF w > Concurrency THEN run ELSE StartWorkers(WorkerTakes(run, w), w + 1)

\* readAllDocuments up to await Promise.all: list() throws or lists no blob (the
\* return of []), or the run begins with its workers started
ReadAllBegins(n, listed) ==
    /\ readAll.pc = "idle"
    /\ readAll' =
         IF ~listed \/ n = 0
         THEN [pc |-> "returned", n |-> IF listed THEN n ELSE 0, i |-> 0,
               workers |-> [w \in Workers |-> [pc |-> "unborn", blob |-> NoBlob]],
               started |-> [b \in 1..n |-> 0], succeeded |-> {}, results |-> <<>>]
         ELSE StartWorkers([pc |-> "running", n |-> n, i |-> 0,
                            workers |-> [w \in Workers |-> [pc |-> "unborn", blob |-> NoBlob]],
                            started |-> [b \in 1..n |-> 0], succeeded |-> {},
                            results |-> <<>>], 1)

\* await fetch(u) of worker w settles: res.ok leads to res.json(), everything else
\* to the next turn of the loop
FetchSettles(w, outcome) ==
    /\ readAll.pc = "running" /\ readAll.workers[w].pc = "fetch"
    /\ readAll' =
         IF outcome = "ok"
         THEN [readAll EXCEPT !.workers[w].pc = "json"]
         ELSE WorkerTakes(readAll, w)

\* await res.json() of worker w settles: the document is pushed, or the catch
\* swallows the error; then the next turn of the loop
JsonSettles(w, outcome) ==
    /\ readAll.pc = "running" /\ readAll.workers[w].pc = "json"
    /\ readAll' =
         IF outcome = "ok"
         THEN WorkerTakes([readAll EXCEPT
                             !.results = Append(readAll.results, readAll.workers[w].blob),
                             !.succeeded = readAll.succeeded \cup {readAll.workers[w].blob}],
                          w)
         ELSE WorkerTakes(readAll, w)

\* await Promise.all(...) resolves when every worker has ended; return results
ReadAllReturns ==
    /\ readAll.pc = "running"
    /\ \A w \in Workers : readAll.workers[w].pc = "done"
    /\ readAll' = [readAll EXCEPT !.pc = "returned"]

\* ReadAllSpec: one call of readAllDocuments over every listing of at most MaxBlobs
\* blobs, the fetches settling in any order
ReadAllNext ==
    /\ \/ \E n \in 0..MaxBlobs, listed \in BOOLEAN : ReadAllBegins(n, listed)
       \/ \E w \in Workers, outcome \in FetchOutcomes : FetchSettles(w, outcome)
       \/ \E w \in Workers, outcome \in JsonOutcomes : JsonSettles(w, outcome)
       \/ ReadAllReturns
    /\ UNCHANGED <<searchVars, storeVars, cacheVars, loadCalls, vecVars,
                   failingDocs, storeCalls, chunker>>

\* nothing else runs in the process
ReadAllInit == SearchIdle /\ StoresIdle

ReadAllSpec == ReadAllInit /\ [][ReadAllNext]_vars

-----------------------------------------------------------------------------
(* The knowledgeStore calls on 'lab:docs', await by await, side by side *)

\* two calls under way in the same process, or in two serverless instances
Calls == {"first", "second"}

\* the list an earlier upload of a.pdf left under 'lab:docs', still 'processing'
EarlierId == DateNowId(EarlierVersion)
EarlierList == <<Doc(EarlierId, "a.pdf", "processing", "")>>

\* the calls: upsertDocumentByNameAsync(name), updateDocumentAsync(id, patch)
StoreOps ==
    {[op |-> "upsert", name |-> n, id |-> EarlierId, patch |-> ErrorPatch] : n \in Names}
    \cup {[op |-> "update", name |-> "", id |-> EarlierId, patch |-> p] :
             p \in {ReadyPatch("text"), ErrorPatch}}

\* the list a call hands to kv.set: its change applied to the list it read, the
\* id of a new entry being the Date.now() of that moment
ChangeOnRead(read, call, t) ==
    IF call.op = "upsert" THEN upsertByName(read, call.name, t)
    ELSE updateDocument(read, call.id, call.patch)

\* a call begins and runs to its first await (getKV): updateDocumentAsync has
\* patched the memory list by then
StoreCallBegins(c, call) ==
    /\ c \notin DOMAIN storeCalls
    /\ storeCalls' = storeCalls @@ (c :> [op |-> call.op, name |-> call.name,
                                          id |-> call.id, patch |-> call.patch,
                                          pc |-> "get", list |-> <<>>, at |-> 0])
    /\ documents' = IF call.op = "update"
                    THEN updateDocument(documents, call.id, call.patch) ELSE documents
    /\ lastOp' = "callBegins"
    /\ UNCHANGED <<kvEnabled, kvDocs, kvHash, blobMeta, uploads, cacheVars, vecVars>>

\* await getDocumentsAsync() resolves with the list under 'lab:docs'; the call has
\* it, and the Date.now() of its change, until kv.set
StoreCallReads(c) ==
    /\ c \in DOMAIN storeCalls /\ storeCalls[c].pc = "get"
    /\ storeCalls' = [storeCalls EXCEPT ![c].pc = "set", ![c].list = kvDocs, ![c].at = now]
    /\ lastOp' = "callReads"
    /\ UNCHANGED <<kvEnabled, documents, kvDocs, kvHash, blobMeta, uploads, cacheVars, vecVars>>

\* await kv.set('lab:docs', list) resolves
StoreCallSets(c) ==
    /\ c \in DOMAIN storeCalls /\ storeCalls[c].pc = "set"
    /\ kvDocs' = ChangeOnRead(storeCalls[c].list, storeCalls[c], storeCalls[c].at)
    /\ storeCalls' = [storeCalls EXCEPT ![c].pc = "bump"]
    /\ lastOp' = "callSets"
    /\ UNCHANGED <<kvEnabled, documents, kvHash, blobMeta, uploads, cacheVars, vecVars>>

\* await bumpVersion(kv) resolves and the call returns
StoreCallBumps(c) ==
    /\ c \in DOMAIN storeCalls /\ storeCalls[c].pc = "bump"
    /\ BumpVersion(TRUE)
    /\ storeCalls' = [storeCalls EXCEPT ![c].pc = "done"]
    /\ lastOp' = "callBumps"
    /\ UNCHANGED <<kvEnabled, documents, kvDocs, kvHash, blobMeta, uploads, now, ticks,
                   thesisCache, cacheTimestamp, cacheKVVersion, lastLoad, vecVars>>

\* KV is configured and answers every request; 'lab:docs' is empty or holds the
\* document of an earlier upload
RaceInit ==
    /\ SearchIdle
    /\ kvEnabled = TRUE /\ documents = <<>>
    /\ kvDocs \in {<<>>, EarlierList}
    /\ kvHash = <<>> /\ blobMeta = <<>> /\ uploads = {} /\ lastOp = NoOp
    /\ now = ProcessStart /\ ticks = 0
    /\ thesisCache = NoCache /\ cacheTimestamp = 0 /\ cacheKVVersion = Null
    /\ kvVersion = (IF kvDocs = <<>> THEN Null ELSE EarlierVersion)
    /\ lastLoad = NoLoad /\ bumpedSinceFill = FALSE
    /\ loadCalls = NoCalls /\ vecIndex = <<>> /\ vecChunks = <<>> /\ embedRequested = {}
    /\ RunsIdle

\* RaceSpec: two store calls on 'lab:docs' whose awaits resolve in any order, the
\* clock advancing by a millisecond in between
RaceNext ==
    \/ /\ \/ \E c \in Calls, call \in StoreOps : StoreCallBegins(c, call)
          \/ \E c \in Calls : StoreCallReads(c)
          \/ \E c \in Calls : StoreCallSets(c)
          \/ \E c \in Calls : StoreCallBumps(c)
       /\ UNCHANGED <<searchVars, loadCalls, failingDocs, readAll, chunker>>
    \/ Tick(1) /\ UNCHANGED <<searchVars, loadCalls, runVars>>

RaceSpec == RaceInit /\ [][RaceNext]_vars

-----------------------------------------------------------------------------
(* ensureVectorsGradual, run after run over one corpus *)

\* largest number of documents of the corpus
MaxSeeds == 5

\* a corpus of n documents with text, in the order loadThesisData returns them
SeedCorpus(n) == [k \in 1..n |-> [id |-> SeedId(k), title |-> "thesis", content |-> "seed"]]

\* KV and the OpenAI key are set, the vector store is empty; the corpus is read and
\* stays as it is; the embedding requests of some of its documents are refused
\* every time (a text the API rejects), those of the others succeed
GradualInit ==
    /\ corpus = <<>> /\ apiKeySet = TRUE /\ lastMessage = <<>> /\ lastMode = NoRequest
    /\ pending = FALSE /\ searchOutcome = NoSearch /\ kwCall = NoKw
    /\ searchScore = FreshScores /\ response = NoResponse /\ completionCalls = 0
    /\ kvEnabled = TRUE /\ documents = <<>> /\ kvDocs = <<>> /\ kvHash = <<>>
    /\ blobMeta = <<>> /\ uploads = {} /\ lastOp = NoOp
    /\ now = ProcessStart /\ ticks = 0 /\ cacheTimestamp = now
    /\ cacheKVVersion = Null /\ kvVersion = Null /\ lastLoad = NoLoad
    /\ bumpedSinceFill = FALSE
    /\ loadCalls = NoCalls /\ vecIndex = <<>> /\ vecChunks = <<>> /\ embedRequested = {}
    /\ \E n \in 1..MaxSeeds :
           thesisCache = [filled |-> TRUE, docs |-> SeedCorpus(n), readAt |-> now]
    /\ failingDocs \in SUBSET {d.id : d \in Range(thesisCache.docs)}
    /\ storeCalls = NoStoreCalls /\ readAll = NoReadAll /\ chunker = NoChunker

\* a load that does not use the cache reads the same corpus and runs
\* ensureVectorsGradual(thesisData, openai, 3, 8000) on it
GradualRun ==
    /\ Vectorized(ensureVectorsGradual(VecState, thesisCache.docs, TRUE))
    /\ lastOp' = "gradualRun"
    /\ UNCHANGED <<kvEnabled, documents, kvDocs, kvHash, blobMeta, uploads, cacheVars>>

GradualNext == GradualRun /\ UNCHANGED <<searchVars, loadCalls, runVars>>

\* GradualSpec: runs of ensureVectorsGradual over a corpus of at most MaxSeeds
\* documents; GradualFairSpec: the runs go on as long as a run changes anything
GradualSpec == GradualInit /\ [][GradualNext]_vars

GradualFairSpec == GradualSpec /\ WF_vars(GradualNext)

-----------------------------------------------------------------------------
(* Chat requests of one process, with and without a reload of the corpus *)

\* SessionSpec: the requests of SearchSpec, each either after a reload of the
\* corpus (cache expired: new document objects) or on the cached objects, which
\* carry the searchScore earlier keywordSearch calls wrote
SessionNext ==
    \/ \E message \in Messages, mode \in SearchModes, reloaded \in BOOLEAN :
           ReceiveChat(message, mode, reloaded)
           /\ UNCHANGED <<storeVars, cacheVars, loadCalls, vecVars, runVars>>
    \/ \E sims \in SimChoices(corpus, lastMessage, lastMode),
          vecFail \in VecFailChoices(corpus, lastMessage, lastMode) :
           ChatPost(sims, vecFail, "text")
           /\ UNCHANGED <<storeVars, cacheVars, loadCalls, vecVars, runVars>>

\* the process has an OpenAI key and a corpus of one document
SessionInit ==
    /\ corpus \in {c \in Corpora : Len(c) = 1}
    /\ apiKeySet = TRUE
    /\ lastMessage = <<>> /\ lastMode = NoRequest /\ pending = FALSE
    /\ searchOutcome = NoSearch /\ kwCall = NoKw /\ searchScore = FreshScores
    /\ response = NoResponse /\ completionCalls = 0
    /\ StoresIdle

SessionSpec == SessionInit /\ [][SessionNext]_vars

-----------------------------------------------------------------------------
(* Claims about the chat endpoint, checked under SearchSpec *)

\* a chat request has been answered
Answered == ~pending /\ lastMessage # <<>>

\* C1: a chat request with a non-empty message and configured credentials whose
\* search returns no document gets the 'no relevant data' template with no sources,
\* and the completion oracle is not called.
C1_EmptyResultGetsNoDataTemplate ==
    (Answered /\ searchOutcome.called /\ ~searchOutcome.threw /\ searchOutcome.docs = <<>>)
        => (response.kind = "no_data" /\ response.sources = <<>> /\ completionCalls = 0)

\* C2: searchKnowledge never raises to POST, in either mode: no chat request ends in
\* an error response because of retrieval.
C2_SearchNeverRaises ==
    (Answered /\ searchOutcome.called) => ~searchOutcome.threw

\* the keyword is found in the document: in its author (either way round), its title
\* or its content, as a string or as the pattern keywordSearch makes of it
KeywordMatchesDoc(id, keyword) ==
    LET d == LowerCatalog[id]
        kl == ToLower(keyword)
    IN  \/ d.author # <<>> /\ (Includes(d.author, kl) \/ Includes(kl, d.author))
        \/ Includes(d.title, kl)
        \/ Includes(d.content, kl)
        \/ ~RegexThrows(kl) /\ CountMatches(d.content, kl) > 0

\* C3: a keywordSearch whose keywords (tokens, kanji runs, expansions) match no
\* author, title or content of any document returns the empty list and does not
\* throw, whatever characters the query holds.
C3_NoMatchReturnsEmpty ==
    (kwCall.called /\
     \A id \in Range(kwCall.base) : \A i \in 1..Len(kwCall.keywords) :
        ~KeywordMatchesDoc(id, kwCall.keywords[i]))
        => (~kwCall.threw /\ kwCall.docs = <<>>)

\* the document's non-empty author is exactly one of the keywords
AuthorExact(id, keywords) ==
    /\ LowerCatalog[id].author # <<>>
    /\ \E i \in 1..Len(keywords) : LowerCatalog[id].author = ToLower(keywords[i])

\* the document matches on content only: no keyword scores on its author or title
ContentOnly(id, keywords) ==
    /\ \A i \in 1..Len(keywords) :
          /\ AuthorScore(LowerCatalog[id], keywords[i]) = 0
          /\ TitleScore(LowerCatalog[id], keywords[i]) = 0
    /\ \E i \in 1..Len(keywords) : ContentScore(LowerCatalog[id], keywords[i]) > 0

\* C4: in keywordSearch a document whose author is exactly a keyword scores at least
\* as much as every document that matches on content only.
C4_AuthorExactOutranksContentOnly ==
    (kwCall.called /\ ~kwCall.threw)
        => \A a \in Range(kwCall.base), b \in Range(kwCall.base) :
              (AuthorExact(a, kwCall.keywords) /\ ContentOnly(b, kwCall.keywords))
                  => kwCall.score[a] >= kwCall.score[b]

\* the documents of the corpus whose author contains Ono
OnoAuthors == {id \in Range(corpus) : Includes(Catalog[id].author, ONO)}

\* C5: for the query Ono against a corpus in which exactly one document has an author
\* containing Ono, that document is the first result, in keyword and in semantic mode.
C5_OnoAuthorFirst ==
    (Answered /\ searchOutcome.called /\ lastMessage = ONO /\ Cardinality(OnoAuthors) = 1)
        => /\ ~searchOutcome.threw
           /\ searchOutcome.docs # <<>>
           /\ searchOutcome.docs[1] \in OnoAuthors

-----------------------------------------------------------------------------
(* Claims about the corpus cache, checked under CacheSpec *)

\* this step is a read of the corpus by loadThesisData
LoadStep == lastLoad'.seq # lastLoad.seq

\* C6: a read that follows the read that filled the cache by less than CACHE_DURATION,
\* carries no no-cache header and sees no version bump since that fill is served
\* from the cache, whatever the state of the version key (never written, unreadable).
C6_SecondReadWithinDurationIsCached ==
    [][(/\ LoadStep
        /\ thesisCache.filled
        /\ now - cacheTimestamp < CACHE_DURATION
        /\ ~lastLoad'.noCache
        /\ ~bumpedSinceFill)
       => lastLoad'.served = "cache"]_vars

\* C7: a read is served from the cache, which it leaves as it is, exactly when it
\* carries no no-cache header, the cache is younger than CACHE_DURATION and the remote
\* version it read equals the non-null version recorded at the last fill; every other
\* read rebuilds the corpus from the backends and fills the cache with it.
C7_CacheServedExactlyWhenValid ==
    [][LoadStep =>
        /\ (lastLoad'.served = "cache") <=>
               (/\ ~lastLoad'.noCache
                /\ now - cacheTimestamp < CACHE_DURATION
                /\ cacheKVVersion # Null
                /\ lastLoad'.remoteVersion = cacheKVVersion)
        /\ lastLoad'.served = "cache" =>
               UNCHANGED <<thesisCache, cacheTimestamp, cacheKVVersion>>
        /\ lastLoad'.served # "cache" =>
               /\ lastLoad'.served = "reload"
               /\ thesisCache'.filled /\ cacheTimestamp' = now
               /\ thesisCache'.docs \in {Merge(blobMeta, kvDocs), Merge(blobMeta, documents)}]_vars

\* a read was served from the cache
C7_ServedFromCache == lastLoad.served = "cache"

-----------------------------------------------------------------------------
(* Claims about the stores, checked under StoreSpec and UploadSpec *)

\* the stored variants of the document with this id, in the backends a read merges
StoredVariants(id) ==
    {d \in Range(blobShards) \cup Range(blobMeta) \cup Range(getDocumentsAsync(TRUE)) :
        d.id = id}

\* C8: the corpus a read has just merged holds no id twice, and the entry of an id of
\* which some backend holds a variant with content carries the content of such a
\* variant.
C8_MergeUniqueAndPrefersContent ==
    (lastOp = "load" /\ lastLoad.served = "reload" /\ lastLoad.readsOk) =>
        LET merged == thesisCache.docs
        IN  /\ \A i, j \in 1..Len(merged) : i # j => merged[i].id # merged[j].id
            /\ \A i \in 1..Len(merged) :
                   (\E d \in StoredVariants(merged[i].id) : d.content # "")
                   => \E d \in StoredVariants(merged[i].id) :
                          d.content # "" /\ merged[i].content = d.content

\* from list to after: every new entry is 'processing'
CreatedProcessing(list, after) ==
    \A i \in 1..Len(after) : i > Len(list) => after[i].status = "processing"

\* from list to after: no entry that is 'ready' or 'error' changes its status
FinalStatusKept(list, after) ==
    \A i \in 1..Len(list) :
        (list[i].status \in {"ready", "error"} /\ i <= Len(after) /\ after[i].id = list[i].id)
            => after[i].status = list[i].status

StatusFollowsUploads(list, after, before, under) ==
    \A i \in 1..Len(after) :
        IF i > Len(list)
        THEN /\ after[i].status = "processing"
             /\ \E job \in under : job.id = after[i].id /\ job.name = after[i].name
        ELSE /\ after[i].id = list[i].id /\ after[i].name = list[i].name
             /\ after[i].status # list[i].status =>
                   \/ /\ after[i].status = "processing"
                      /\ after[i].content = list[i].content
                      /\ \E job \in under : job.id = list[i].id /\ job.name = list[i].name
                   \/ /\ after[i].status \in {"ready", "error"}
                      /\ \E job \in before \ under : job.id = list[i].id

C10_ResetClearsEveryBackend ==
    lastOp = "reset" =>
        /\ documents = <<>> /\ kvDocs = <<>> /\ kvHash = <<>>
        /\ blobMeta = <<>> /\ blobShards = <<>>
        /\ Merge(blobMeta, getDocumentsAsync(TRUE)) = SeedDocs

-----------------------------------------------------------------------------
(* C11: the version key *)

\* a step that completes a write of the KV list, and with it a bump of the version
KvWriteStep ==
    kvDocs' # kvDocs /\ lastOp' \in {"upsert", "process", "processFailed", "ingest"}

\* C11: every completed bump leaves the version key strictly greater than it was
\* before the bump, so every completed store write changes the version a reader
\* compares against.
C11_BumpStrictlyIncreases == [][KvWriteStep => kvVersion' > kvVersion]_vars

-----------------------------------------------------------------------------
(* C12, C13: concurrent loads and staleness *)

\* the corpus a single load builds from the backends as they are
SingleLoad == Merge(blobMeta, getDocumentsAsync(TRUE))

\* both calls rebuilt the corpus and have returned, with no storage write since the
\* first of them began
BothRebuilt ==
    \A r \in Requests :
        /\ loadCalls[r].pc = "done" /\ loadCalls[r].served = "reload"
        /\ loadCalls[r].clean

C13_CacheStalenessBounded ==
    \A r \in Requests :
        (loadCalls[r].pc = "done" /\ loadCalls[r].served = "cache")
            => loadCalls[r].now - loadCalls[r].readAt <= CACHE_DURATION

\* a request is served a corpus that was read some time before it
C13_ServedStaleCorpus ==
    \E r \in Requests :
        /\ loadCalls[r].pc = "done" /\ loadCalls[r].served = "cache"
        /\ loadCalls[r].now - loadCalls[r].readAt > 0

-----------------------------------------------------------------------------
(* C14, C15: the vector store *)

\* a load that rebuilt the corpus with an OpenAI key and KV: ensureVectorsGradual ran
GradualStep ==
    /\ lastLoad'.seq # lastLoad.seq /\ lastLoad'.served = "reload"
    /\ apiKeySet /\ kvEnabled

\* C14: running ensureVectorsGradual over a corpus leaves the stored chunk list of
\* every document id that is already in the vector index unchanged and requests no
\* embedding for it.
C14_GradualSkipsIndexed ==
    [][GradualStep =>
          \A id \in Range(vecIndex) :
              /\ id \in DOMAIN vecChunks' /\ vecChunks'[id] = vecChunks[id]
              /\ id \notin embedRequested']_vars

\* ensureVectorsGradual has run again over a corpus whose documents are all indexed
C14_RanAgainOverIndexed ==
    /\ lastOp = "load" /\ lastLoad.served = "reload" /\ apiKeySet /\ kvEnabled
    /\ embedRequested = {}
    /\ \A i \in 1..Len(thesisCache.docs) : thesisCache.docs[i].id \in Range(vecIndex)
    /\ Len(thesisCache.docs) > Len(SeedDocs)

\* C15: once chunks of a document id are stored, no later operation requests
\* embeddings for that id or rewrites its chunks.
C15_ChunksWrittenOnce ==
    [][\A id \in DOMAIN vecChunks :
          vecChunks[id] # <<>> =>
              /\ id \in DOMAIN vecChunks' /\ vecChunks'[id] = vecChunks[id]
              /\ id \notin embedRequested']_vars

-----------------------------------------------------------------------------
(* Claims about the search paths, checked under SearchSpec *)

\* the request was answered by the cosine rerank of semanticSearch
Reranked == ~pending /\ searchOutcome.called /\ searchOutcome.embedded

\* the documents of seq are in non-increasing order of key
NonIncreasing(seq, key) == \A i \in 1..(Len(seq) - 1) : key[seq[i]] >= key[seq[i + 1]]

\* C16: when the embedding request of a candidate fails during the rerank, the
\* search does not throw, the result is still the ranked list of candidates (in
\* non-increasing similarity, no keywordSearch call), and the candidate whose
\* request failed has similarity 0.
C16_FailedEmbeddingCountsZero ==
    (Reranked /\ searchOutcome.failed # {}) =>
        /\ ~searchOutcome.threw
        /\ ~kwCall.called
        /\ Range(searchOutcome.docs) \subseteq Range(searchOutcome.candidates)
        /\ NonIncreasing(searchOutcome.docs, searchOutcome.similarity)
        /\ \A id \in searchOutcome.failed : searchOutcome.similarity[id] = 0

\* the request went to semanticSearch: semantic mode, no field inquiry, no document
\* named by the author guard
SemanticPath ==
    /\ ~pending /\ searchOutcome.called /\ corpus # <<>>
    /\ lastMode = "semantic"
    /\ ~IsFieldInquiry(lastMessage)
    /\ AuthorGuardDocs(corpus, lastMessage) = <<>>

\* C17: in semantic mode, when the prefilter keeps more than 10 candidates, the
\* search is exactly keywordSearch over those candidates (same call, same documents,
\* same outcome) and the embedding oracle is not asked.
C17_ManyCandidatesFallBackToKeyword ==
    (SemanticPath /\ Len(PrefilterCandidates(corpus, lastMessage)) > 10) =>
        /\ ~searchOutcome.embedded
        /\ kwCall = keywordSearch(PrefilterCandidates(corpus, lastMessage), NoCustom,
                                  lastMessage)
        /\ searchOutcome.docs = kwCall.docs
        /\ searchOutcome.threw = kwCall.threw

\* the fallback ran over 11 candidates of a corpus of 12 and found documents, and
\* keywordSearch over the whole corpus would have returned other documents
C17_FellBackOverCandidates ==
    /\ SemanticPath
    /\ Len(PrefilterCandidates(corpus, lastMessage)) > 10
    /\ Len(kwCall.base) < Len(corpus)
    /\ kwCall.docs # <<>>
    /\ kwCall.docs # keywordSearch(corpus, NoCustom, lastMessage).docs

\* the largest number of a non-empty set of numbers
MaxOf(S) == CHOOSE m \in S : \A x \in S : x <= m

\* The result of the rerank is its candidates ranked by the recorded similarity:
\* at most 5 documents, each once, all above the floor, in non-increasing order; a
\* candidate above the floor is left out only behind 5 that rank at least as high.
RankedAboveFloor ==
    LET docs == searchOutcome.docs
        similarity == searchOutcome.similarity
    IN  /\ ~searchOutcome.threw
        /\ Range(docs) \subseteq Range(searchOutcome.candidates)
        /\ Len(docs) <= 5
        /\ Cardinality(Range(docs)) = Len(docs)
        /\ \A id \in Range(docs) : similarity[id] > SimilarityFloor
        /\ NonIncreasing(docs, similarity)
        /\ \A id \in Range(searchOutcome.candidates) \ Range(docs) :
               similarity[id] > SimilarityFloor =>
                   /\ Len(docs) = 5
                   /\ \A d \in Range(docs) : similarity[d] >= similarity[id]

\* the similarity of a candidate that is not indexed: that of its one on-the-fly
\* embedding (whatever generateEmbedding returned when its request failed)
OnTheFly(id) ==
    \/ id \in searchOutcome.failed
    \/ searchOutcome.similarity[id] = searchOutcome.answers[id].direct

\* C18 as stated: in the rerank a document's score is the largest cosine of its
\* stored chunks, or that of its on-the-fly embedding when it is not indexed, and the
\* result is the candidates by descending score, the first 5, those above 0.1.
C18_ScoreIsLargestChunkCosine ==
    Reranked =>
        /\ \A id \in Range(searchOutcome.candidates) :
               IF searchOutcome.answers[id].chunks # <<>>
               THEN searchOutcome.similarity[id]
                        = MaxOf(Range(searchOutcome.answers[id].chunks))
               ELSE OnTheFly(id)
        /\ RankedAboveFloor

\* C18 amended: the score of an indexed document is the largest cosine of its stored
\* chunks but never below 0 (best starts at 0), so a document whose chunks all point
\* away from the query scores 0; the rest is as stated.
C18_ScoreIsLargestChunkCosineOrZero ==
    Reranked =>
        /\ \A id \in Range(searchOutcome.candidates) :
               IF searchOutcome.answers[id].chunks # <<>>
               THEN searchOutcome.similarity[id]
                        = MaxOf(Range(searchOutcome.answers[id].chunks) \cup {0})
               ELSE OnTheFly(id)
        /\ RankedAboveFloor

\* a rerank of more than 5 candidates: one is indexed with two chunks of which the
\* first is the closer, one is indexed with a chunk that points away from the query,
\* one is at the floor and left out, and the result has both scores above the floor
C18_RerankedSixCandidates ==
    /\ Reranked
    /\ Len(searchOutcome.candidates) > 5
    /\ \E id \in Range(searchOutcome.candidates) :
           /\ Len(searchOutcome.answers[id].chunks) > 1
           /\ searchOutcome.answers[id].chunks[1] > searchOutcome.answers[id].chunks[2]
    /\ \E id \in Range(searchOutcome.candidates) :
           /\ searchOutcome.answers[id].chunks # <<>>
           /\ \A i \in DOMAIN searchOutcome.answers[id].chunks :
                  searchOutcome.answers[id].chunks[i] < 0
    /\ \E id \in Range(searchOutcome.candidates) \ Range(searchOutcome.docs) :
           searchOutcome.similarity[id] = SimilarityFloor
    /\ \E d, e \in Range(searchOutcome.docs) :
           searchOutcome.similarity[d] > searchOutcome.similarity[e]

\* a keywordSearch call of the request returned
KeywordReturned == ~pending /\ kwCall.called /\ ~kwCall.threw

\* C19: what keywordSearch returns are documents of its base set with a score above
\* 0, each once, in non-increasing score, at most 5; a document with a score above 0
\* is left out only when 5 are returned and none of them scores lower.
C19_KeywordTopFive ==
    KeywordReturned =>
        /\ Range(kwCall.docs) \subseteq Range(kwCall.base)
        /\ Cardinality(Range(kwCall.docs)) = Len(kwCall.docs)
        /\ \A id \in Range(kwCall.docs) : kwCall.score[id] > 0
        /\ NonIncreasing(kwCall.docs, kwCall.score)
        /\ Len(kwCall.docs) <= 5
        /\ \A id \in Range(kwCall.base) \ Range(kwCall.docs) :
               kwCall.score[id] > 0 =>
                   /\ Len(kwCall.docs) = 5
                   /\ \A d \in Range(kwCall.docs) : kwCall.score[d] >= kwCall.score[id]

\* keywordSearch returned 5 documents of different scores that were not the first 5
\* of its base set, leaving out one that scored 0 and one that scored above 0
C19_CutToFiveOfMore ==
    /\ KeywordReturned
    /\ Len(kwCall.docs) = 5
    /\ kwCall.docs # SubSeq(kwCall.base, 1, 5)
    /\ kwCall.score[kwCall.docs[1]] > kwCall.score[kwCall.docs[5]]
    /\ \E id \in Range(kwCall.base) : kwCall.score[id] = 0
    /\ \E id \in Range(kwCall.base) \ Range(kwCall.docs) : kwCall.score[id] > 0

\* the keywords searchKnowledge hands to keywordSearch for a field inquiry: the
\* words of the query followed by the dynamic keywords of the whole corpus
ExpandedKeywords ==
    SplitOn(ToLower(lastMessage), WhiteSpace \cup JapanesePunct)
    \o extractDynamicKeywords(lastMessage, corpus)

\* C20: a query that analyzeQuestion classifies as a field inquiry is answered by
\* keywordSearch over the whole corpus with the expanded keywords, in both modes,
\* whether or not the author guard names documents; no embedding is requested.
C20_FieldInquiryComesFirst ==
    (~pending /\ searchOutcome.called /\ corpus # <<>> /\ IsFieldInquiry(lastMessage)) =>
        /\ kwCall = keywordSearch(corpus, Custom(ExpandedKeywords), lastMessage)
        /\ kwCall.base = corpus
        /\ searchOutcome.docs = kwCall.docs
        /\ searchOutcome.threw = kwCall.threw
        /\ ~searchOutcome.embedded

\* a field inquiry in semantic mode whose kanji run names one of the two documents
\* of the corpus was searched by keyword over both, and returned the other one too
C20_FieldInquiryPastGuard ==
    /\ ~pending /\ searchOutcome.called
    /\ IsFieldInquiry(lastMessage)
    /\ lastMode = "semantic"
    /\ AuthorGuardDocs(corpus, lastMessage) # <<>>
    /\ AuthorGuardDocs(corpus, lastMessage) # corpus
    /\ kwCall.base = corpus
    /\ \E id \in Range(searchOutcome.docs) :
           id \notin Range(AuthorGuardDocs(corpus, lastMessage))

-----------------------------------------------------------------------------
(* C21: the outcome of processDocument *)

\* the documents a reader gets after the step (getDocumentsAsync with KV answering)
StoredAfter == IF kvEnabled THEN kvDocs' ELSE documents'

\* the status, after the step, of the document of an upload that ended in the step
StatusAfter(job) ==
    IF IndexById(StoredAfter, job.id) = 0 THEN "missing"
    ELSE StoredAfter[IndexById(StoredAfter, job.id)].status

-----------------------------------------------------------------------------
(* C22: document ids *)

\* no two entries of the list with different names have the same id
IdsDistinct(list) ==
    \A i, j \in 1..Len(list) : list[i].name # list[j].name => list[i].id # list[j].id

\* C22: documents created for different names have different ids, in the memory
\* list and in the KV list.
C22_DocumentIdsUnique == IdsDistinct(documents) /\ IdsDistinct(kvDocs)

-----------------------------------------------------------------------------
(* C25: the cached version and the cached corpus *)

\* a call finds the cache valid in this step and returns the cached corpus
ServesCacheStep(r) == loadCalls[r].pc = "begun" /\ loadCalls'[r].served = "cache"

\* C25: a call that finds the remote version equal to the cached one returns a
\* corpus that holds every document written to the stores before the call, as a
\* load of the backends at that moment would.
C25_CachedVersionCoversWrites ==
    [][\A r \in Requests :
           ServesCacheStep(r) => Range(loadCalls'[r].result) = Range(SingleLoad)]_vars

-----------------------------------------------------------------------------
(* C29: metadata.json after upsertDocument calls *)

\* C29: after any sequence of upsertDocument calls from an empty metadata.json no
\* two documents of metadata.json have the same id and no two have the same name.
C29_MetadataIdsAndNamesUnique ==
    \A i, j \in 1..Len(blobMeta) :
        i # j => blobMeta[i].id # blobMeta[j].id /\ blobMeta[i].name # blobMeta[j].name


-----------------------------------------------------------------------------
(* Claims about chunkText, checked under ChunkSpec *)

RECURSIVE Concat(_)
Concat(seqs) == IF seqs = <<>> THEN <<>> ELSE Head(seqs) \o Concat(Tail(seqs))

\* C23: the chunks chunkText returns, concatenated in order, are the input text; the
\* empty text gives no chunk; every chunk has between 1 and maxLen characters
C23_ChunksConcatenateToText ==
    chunker.pc = "returned" =>
        /\ Concat(chunker.chunks) = chunker.text
        /\ (chunker.text = <<>> => chunker.chunks = <<>>)
        /\ \A i \in 1..Len(chunker.chunks) :
               Len(chunker.chunks[i]) \in 1..chunker.maxLen

\* a text whose length is no multiple of maxLen was cut into several chunks
C23_LastChunkIsShort ==
    /\ chunker.pc = "returned"
    /\ Len(chunker.text) % chunker.maxLen # 0
    /\ Len(chunker.chunks) > 1
    /\ Len(chunker.chunks[Len(chunker.chunks)]) < chunker.maxLen


-----------------------------------------------------------------------------
(* Claims about splitTextIntoChunks, checked under SplitFairSpec *)

\* C30: splitTextIntoChunks returns for every text and every maxChunkSize >= 1, and
\* none of the chunks it returns is longer than maxChunkSize
C30_SplitReturnsChunksWithinMax ==
    /\ <>(chunker.pc = "returned")
    /\ [](chunker.pc = "returned" =>
            \A i \in 1..Len(chunker.chunks) : Len(chunker.chunks[i]) <= chunker.maxChunkSize)


-----------------------------------------------------------------------------
(* Claims about readAllDocuments, checked under ReadAllSpec *)

\* the fetches and body reads under way
InFlight == {w \in Workers : readAll.workers[w].pc \in {"fetch", "json"}}

\* C28: however the fetches of the workers settle, no blob is fetched twice, at most
\* 5 fetches are under way, and when readAllDocuments returns every worker has
\* ended, every listed blob was fetched once, and the result holds one entry for
\* each blob fetched and read with success and nothing else
C28_EachBlobFetchedOnce ==
    readAll.pc # "idle" =>
        /\ \A b \in 1..readAll.n : readAll.started[b] <= 1
        /\ Cardinality(InFlight) <= 5
        /\ readAll.pc = "returned" =>
             /\ \A w \in Workers : readAll.workers[w].pc \in {"done", "unborn"}
             /\ \A b \in 1..readAll.n : readAll.started[b] = 1
             /\ Range(readAll.results) = readAll.succeeded
             /\ Len(readAll.results) = Cardinality(readAll.succeeded)

\* a call over more blobs than workers returned, one fetch having failed, the
\* documents in another order than the listing
C28_ReturnedOutOfListingOrder ==
    /\ readAll.pc = "returned" /\ readAll.n > Concurrency
    /\ Cardinality(readAll.succeeded) = readAll.n - 1
    /\ \E k \in 1..(Len(readAll.results) - 1) : readAll.results[k] > readAll.results[k + 1]


-----------------------------------------------------------------------------
(* Claims about concurrent store calls, checked under RaceSpec *)

\* the change of a completed call is in the list under 'lab:docs': the name is
\* there, or the document the call found under its id has the status of the patch
EffectStored(call) ==
    IF call.op = "upsert"
    THEN \E d \in Range(kvDocs) : d.name = call.name
    ELSE IndexById(call.list, call.id) > 0
             => \E d \in Range(kvDocs) : d.id = call.id /\ d.status = call.patch.status

\* two upserts of different names, or an upsert and an update of another document
IndependentCalls(a, b) ==
    \/ a.op = "upsert" /\ b.op = "upsert" /\ a.name # b.name
    \/ a.op = "upsert" /\ b.op = "update" /\ a.name # EarlierList[1].name
    \/ a.op = "update" /\ b.op = "upsert" /\ b.name # EarlierList[1].name

\* C26: with KV on and answering, once two concurrent store calls on 'lab:docs' that
\* concern different documents have both completed, the list holds the change of
\* each of them
C26_BothChangesStored ==
    (/\ DOMAIN storeCalls = Calls
     /\ \A c \in Calls : storeCalls[c].pc = "done"
     /\ IndependentCalls(storeCalls["first"], storeCalls["second"]))
        => EffectStored(storeCalls["first"]) /\ EffectStored(storeCalls["second"])


-----------------------------------------------------------------------------
(* Claims about gradual vectorization, checked under GradualFairSpec *)

\* C27: under repeated runs of ensureVectorsGradual over a fixed corpus, every
\* document whose embedding request succeeds is in the vector index in the end,
\* whichever other documents keep failing
C27_EmbeddableDocsGetIndexed ==
    <>(\A d \in Range(thesisCache.docs) :
           d.id \notin failingDocs => d.id \in Range(vecIndex))


-----------------------------------------------------------------------------
(* Claims about successive chat requests, checked under SessionSpec *)

\* the search of the last request, as POST saw it
LastSearch == [threw |-> searchOutcome.threw, docs |-> searchOutcome.docs, kw |-> kwCall]

=============================================================================
